---- MODULE Spec2Model ----
(***************************************************************************)
(* Streaming acquisition routers of python-ismrmrd-server:                 *)
(*   bart_jemris.process, bart_pics_pulseq.process,                        *)
(*   bart_pulseq_spiral_dream.process_spiral_dream and                     *)
(*   powergrid_pulseq.process.                                             *)
(* One pipeline and one header are fixed when a stream starts; every       *)
(* iteration of the routing loop is one action that consumes one item of   *)
(* the stream.                                                             *)
(***************************************************************************)
EXTENDS Integers, Sequences, FiniteSets, TLC

\* ------------------------------------------------------------------ bounds
\* longest stream that is explored (number of items)
MaxItems == 4
\* most Image and Waveform items that a pipeline handles in one stream
MaxPass == 1
\* largest matrix size in y and z (x may be one more), and longest group, a
\* sorter is called with
MaxMatrix == 2
MaxGroup == 4
\* most samples of a nominal gradient
MaxGrad == 2
\* largest slice count, contrast count and segment count of a header
MaxSlc == 2
MaxContr == 2
MaxSeg == 2
\* most streams one server process handles one after the other
MaxStreams == 2

\* ------------------------------------------------------------------ values
None == [tag |-> "None"]
Unbound == [tag |-> "Unbound"]
Zero == -1

NOISE == "ACQ_IS_NOISE_MEASUREMENT"
PHASECORR == "ACQ_IS_PHASECORR_DATA"
DUMMY == "ACQ_IS_DUMMYSCAN_DATA"
CALIB == "ACQ_IS_PARALLEL_CALIBRATION"
SURFCOIL == "ACQ_IS_SURFACECOILCORRECTIONSCAN_DATA"
LAST_IN_SLICE == "ACQ_LAST_IN_SLICE"
LAST_IN_REPETITION == "ACQ_LAST_IN_REPETITION"
LAST_IN_MEASUREMENT == "ACQ_LAST_IN_MEASUREMENT"

Pipelines == {"jemris", "pics", "dream", "powergrid"}

\* The header values the routers read at stream start: n_slc, n_contr,
\* nsegments, and whether the protocol arrays hold 'Directions' (powergrid
\* reads them for contrast > 0 only).  jemris and pics read neither the
\* contrast limit nor the segment limit.  A header with several contrasts
\* has one slice and one segment; several slices go with several segments.
Headers(p) ==
    { h \in [n_slc : 1..MaxSlc, n_contr : 1..MaxContr, nsegments : 1..MaxSeg,
             dirs : BOOLEAN] :
        /\ (h.n_contr > 1 => h.n_slc = 1 /\ h.nsegments = 1)
        /\ (p \in {"jemris", "pics"} => h.n_contr = 1 /\ h.nsegments = 1)
        /\ (h.dirs => p = "powergrid" /\ h.n_contr > 1) }

\* Completion flags an imaging acquisition can carry.
Completions(p) ==
    {{}, {LAST_IN_SLICE}, {LAST_IN_REPETITION}}
      \cup (IF p = "powergrid"
            THEN {{LAST_IN_MEASUREMENT}, {LAST_IN_SLICE, LAST_IN_MEASUREMENT}}
            ELSE {})

\* Completion flags tried on records that carry a role flag: the only
\* completion flag a branch reads on such a record is last-in-slice (on a
\* calibration record).
RoleCompletions(p) ==
    {{}, {LAST_IN_SLICE}} \cup (IF p = "powergrid" THEN {{LAST_IN_MEASUREMENT}} ELSE {})

\* Role flags a pipeline can receive.
Roles(p) ==
    {NOISE, PHASECORR, DUMMY, CALIB} \cup (IF p = "jemris" THEN {SURFCOIL} ELSE {})

\* insert_acq: the largest sample count a resized record may have (uint16)
nsamples_max == 65535

\* number_of_samples of a readout that, widened to nsegments segments, just
\* fits
Fitting(h) == nsamples_max \div h.nsegments

\* The sample counts tried on the records insert_acq widens: the largest that
\* fits and, where number_of_samples (uint16) can hold it, the next one.
SampleCounts(p, h) ==
    IF p \in {"dream", "powergrid"}
    THEN {n \in {Fitting(h), Fitting(h) + 1} : n <= nsamples_max}
    ELSE {Fitting(h)}

\* The acquisitions a stream can deliver under header h: a record carries at
\* most one role flag, and its encoding indices lie within the header limits.
\* Indices that no branch reads for a role are left at 0, and a sample count
\* that insert_acq does not read is the fitting one.
Acquisitions(p, h) ==
    { [flags |-> {r} \cup c, slc |-> 0, contr |-> 0, seg |-> 0, samples |-> Fitting(h)] :
          r \in Roles(p) \ {CALIB}, c \in RoleCompletions(p) }
    \cup
    { [flags |-> {CALIB} \cup c, slc |-> s, contr |-> 0, seg |-> 0, samples |-> Fitting(h)] :
          s \in 0..(h.n_slc - 1), c \in RoleCompletions(p) }
    \cup
    { [flags |-> c, slc |-> s, contr |-> k, seg |-> 0, samples |-> n] :
          c \in Completions(p), s \in 0..(h.n_slc - 1), k \in 0..(h.n_contr - 1),
          n \in SampleCounts(p, h) }
    \cup
    { [flags |-> c, slc |-> s, contr |-> k, seg |-> g, samples |-> Fitting(h)] :
          c \in Completions(p), s \in 0..(h.n_slc - 1), k \in 0..(h.n_contr - 1),
          g \in 1..(h.nsegments - 1) }

\* ------------------------------------------------------------------ state
VARIABLES
    pipe,             \* which process() runs
    hdr,              \* metadata / protocol values read at stream start
    cur_rep,          \* scanner side: repetition index of the next acquisition
    pc,               \* "loop" | "done" | "failed"
    err,              \* the exception that left the loop, or None
    item,             \* loop variable: last item taken from the connection
    acq_ctr,          \* enumerate() counter of the loop
    noiseGroup,       \* list of noise acquisitions
    dmtx,             \* pre-whitening matrix or None
    acsGroup,         \* per slice: list of calibration acquisitions
    sensmaps,         \* per slice: sensitivity map or None
    sensmaps_jemris,  \* jemris: surface-coil maps received in the stream
    acqGroup,         \* imaging buffers (keyed as each pipeline keys them)
    base_trj,         \* dream/powergrid: base trajectory of the last segment 0
    pred_trj,         \* dream/powergrid: predicted trajectory of the last segment 0
    shift,            \* dream/powergrid: position shift of the last segment 0
    phs,              \* powergrid: navigator data (None | list | array)
    sent,             \* everything sent on the connection, in order
    log,              \* logging.info messages about untriggered data, in order
    marker,           \* the loop was left by `elif item is None: break`
    passed,           \* the Image or Waveform the loop variable is bound to, when
                      \* the last item taken was no acquisition (`item` then keeps
                      \* the last acquisition taken); None otherwise
    waveformGroup,    \* list of the waveforms received
    metadata,         \* the header object handed to every processing function
                      \* (powergrid: a protocol with two averages)
    call              \* a sorter or trajectory function called on its own: its
                      \* arguments and its result (NoCall while a pipeline runs)

vars == <<pipe, hdr, cur_rep, pc, err, item, acq_ctr, noiseGroup, dmtx, acsGroup, sensmaps,
          sensmaps_jemris, acqGroup, base_trj, pred_trj, shift, phs, sent, log, marker,
          passed, waveformGroup, metadata, call>>

\* the mutable locals of process() as one record; reco_ok is the outcome of
\* the external reconstruction command, should this step call it
Cur ==
    [pc |-> pc, err |-> err, item |-> item, noiseGroup |-> noiseGroup, dmtx |-> dmtx,
     acsGroup |-> acsGroup, sensmaps |-> sensmaps, sensmaps_jemris |-> sensmaps_jemris,
     acqGroup |-> acqGroup, base_trj |-> base_trj, pred_trj |-> pred_trj,
     shift |-> shift, phs |-> phs, sent |-> sent, log |-> log, reco_ok |-> TRUE,
     waveformGroup |-> waveformGroup, metadata |-> metadata]

\* the locals in a step whose reconstruction command succeeds (ok) or fails
Calling(ok) == [Cur EXCEPT !.reco_ok = ok]

\* ------------------------------------------------------------------ helpers
Has(it, f) == f \in it.flags

Raise(s, e) == [s EXCEPT !.pc = "failed", !.err = [tag |-> e]]

\* an exception that would pass the finally block by
Failed_Unnoticed(s) == FALSE

Failed(s) == s.pc = "failed"

Completes(it) == Has(it, LAST_IN_SLICE) \/ Has(it, LAST_IN_REPETITION)

\* the buffer index a pipeline uses for an imaging record
GroupKey(p, it) ==
    CASE p = "jemris" -> <<it.slc>>
      [] p = "pics" -> << >>
      [] p = "dream" -> <<it.contr, it.slc>>
      [] p = "powergrid" -> <<it.slc, it.contr>>

GroupKeys(p, h) ==
    CASE p = "jemris" -> { <<s>> : s \in 0..(h.n_slc - 1) }
      [] p = "pics" -> { << >> }
      [] p = "dream" -> { <<k, s>> : k \in 0..(h.n_contr - 1), s \in 0..(h.n_slc - 1) }
      [] p = "powergrid" -> { <<s, k>> : s \in 0..(h.n_slc - 1), k \in 0..(h.n_contr - 1) }

\* an item as the loop sees it: the stream record with its position in the
\* stream (which identifies its sample payload)
Arrive(r, n) ==
    [id |-> n, flags |-> r.flags, slc |-> r.slc, contr |-> r.contr, rep |-> cur_rep,
     seg |-> r.seg, samples |-> r.samples, data |-> <<n>>, fov |-> << >>, white |-> None]

Ids(group) == [i \in 1..Len(group) |-> group[i].id]

Image(group, dm, sens) == [tag |-> "image", group |-> group, dmtx |-> dm, sens |-> sens]

Close == [tag |-> "close"]

\* the image goes out although the reconstruction command failed
SendImage_AfterFailure(s, group, dm, sens) ==
    IF s.reco_ok THEN [s EXCEPT !.sent = Append(@, Image(group, dm, sens))]
    ELSE [s EXCEPT !.sent = Append(@, Image(group, dm, sens)),
                   !.pc = "failed", !.err = [tag |-> "RuntimeError"]]

\* images = process_raw(...); connection.send_image(images): a failing
\* reconstruction command raises inside process_raw (subprocess.run with
\* check=True and the RuntimeError raised from its handler in
\* powergrid_pulseq; the bart call of the other pipelines), before anything
\* is sent
SendImage(s, group, dm, sens) ==
    IF s.reco_ok THEN [s EXCEPT !.sent = Append(@, Image(group, dm, sens))]
    ELSE [s EXCEPT !.pc = "failed", !.err = [tag |-> "RuntimeError"]]

\* the statement after send_image, reached only when nothing was raised
Then(s, key) == IF s.pc = "failed" THEN s ELSE [s EXCEPT !.acqGroup[key] = << >>]

\* the matrix computed from the first noise record alone
calculate_prewhitening_First(noise) == [tag |-> "dmtx", noise |-> <<noise[1].id>>]

\* calculate_prewhitening over the concatenated noise data
calculate_prewhitening(noise) == [tag |-> "dmtx", noise |-> Ids(noise)]

\* the block with the test `dmtx is None` left out of its condition: the
\* matrix is rebuilt whenever noise is buffered (the variant C4 is tried on)
BuildNoise_Rebuild(s, clear) ==
    IF Len(s.noiseGroup) > 0
    THEN [s EXCEPT !.dmtx = calculate_prewhitening(s.noiseGroup),
                   !.noiseGroup = IF clear THEN << >> ELSE @]
    ELSE s

\* the routing without the build: the buffered noise is never turned into a model
BuildNoise_Skipped(s, clear) == s

\* `elif len(noiseGroup) > 0 and dmtx is None:` block
BuildNoise(s, clear) ==
    IF Len(s.noiseGroup) > 0 /\ s.dmtx = None
    THEN [s EXCEPT !.dmtx = calculate_prewhitening(s.noiseGroup),
                   !.noiseGroup = IF clear THEN << >> ELSE @]
    ELSE s

AppendNoise(s, it) == [s EXCEPT !.noiseGroup = Append(@, it)]

\* the append with the slice index left at 0 (the variant C8 is tried on)
AppendCalib_FirstSlice(s, it) == [s EXCEPT !.acsGroup[0] = Append(@, it)]

AppendCalib(s, it) == [s EXCEPT !.acsGroup[it.slc] = Append(@, it)]

\* process_acs: None for an empty group, else a map from that group
process_acs(group, dm) ==
    IF Len(group) > 0 THEN [tag |-> "sens", src |-> "acs", ids |-> Ids(group), dmtx |-> dm]
    ELSE None

\* ------------------------------------------------------------------ bart_jemris.process
JemrisCalibrate(s, it) ==
    IF s.sensmaps[it.slc] = None
    THEN [s EXCEPT !.sensmaps[it.slc] = process_acs(s.acsGroup[it.slc], s.dmtx),
                   !.acsGroup[it.slc] = << >>]
    ELSE s

JemrisEmit(s, it) ==
    IF Completes(it)
    THEN Then(SendImage(s, s.acqGroup[<<it.slc>>], s.dmtx, s.sensmaps[it.slc]), <<it.slc>>)
    ELSE s

JemrisBody(s0, it) ==
    LET s == [s0 EXCEPT !.item = it] IN
    IF Has(it, NOISE) THEN AppendNoise(s, it)
    ELSE LET s1 == BuildNoise(s, TRUE) IN
         IF Has(it, SURFCOIL) THEN [s1 EXCEPT !.sensmaps_jemris = Append(@, it.id)]
         ELSE IF Has(it, DUMMY) THEN s1
         ELSE IF Has(it, PHASECORR) THEN s1
         ELSE IF Has(it, CALIB) THEN AppendCalib(s1, it)
         ELSE LET s2 == JemrisCalibrate(s1, it)
                  s3 == [s2 EXCEPT !.acqGroup[<<it.slc>>] = Append(@, it)]
              IN JemrisEmit(s3, it)

\* ------------------------------------------------------------------ pulseq_prot.insert_acq
\* insert_acq without the early return for noise, navigator, dummy and
\* calibration records: such a record with segment 0 is resized and a base
\* trajectory is returned for it (the variant C6 is tried on)
insert_acq_NoEarlyReturn(it, h, noncartesian) ==
    IF noncartesian /\ it.seg = 0
    THEN IF it.samples * h.nsegments > nsamples_max
         THEN [item |-> it, base |-> None, raised |-> TRUE]
         ELSE [item |-> [it EXCEPT !.samples = it.samples * h.nsegments,
                                   !.data = [i \in 1..h.nsegments |->
                                               IF i = 1 THEN it.id ELSE Zero]],
               base |-> [tag |-> "base_trj", of |-> it.id], raised |-> FALSE]
    ELSE [item |-> it, base |-> None, raised |-> FALSE]

\* insert_acq without the test of the widened sample count
insert_acq_NoLimit(it, h, noncartesian) ==
    IF it.flags \cap {NOISE, PHASECORR, DUMMY, CALIB} # {}
    THEN [item |-> it, base |-> None, raised |-> FALSE]
    ELSE IF noncartesian /\ it.seg = 0
    THEN [item |-> [it EXCEPT !.samples = it.samples * h.nsegments,
                              !.data = [i \in 1..h.nsegments |->
                                          IF i = 1 THEN it.id ELSE Zero]],
          base |-> [tag |-> "base_trj", of |-> it.id], raised |-> FALSE]
    ELSE [item |-> it, base |-> None, raised |-> FALSE]

\* insert_acq without the test of the segment index
insert_acq_AnySegment(it, h, noncartesian) ==
    IF it.flags \cap {NOISE, PHASECORR, DUMMY, CALIB} # {}
    THEN [item |-> it, base |-> None, raised |-> FALSE]
    ELSE IF noncartesian
    THEN IF it.samples * h.nsegments > nsamples_max
         THEN [item |-> it, base |-> None, raised |-> TRUE]
         ELSE [item |-> [it EXCEPT !.samples = it.samples * h.nsegments,
                                   !.data = [i \in 1..h.nsegments |->
                                               IF i = 1 THEN it.id ELSE Zero]],
               base |-> [tag |-> "base_trj", of |-> it.id], raised |-> FALSE]
    ELSE [item |-> it, base |-> None, raised |-> FALSE]

\* The record after insert_acq and the value insert_acq returns.  The role
\* flags, last-in-slice, last-in-repetition and the encoding indices of a
\* record are the ones of its protocol entry (the scanner delivers the
\* readouts without role flags of their own), so the flags insert_acq tests
\* on the protocol entry are the flags the router tests on the record.  For a
\* non-Cartesian imaging record with segment 0 the samples are resized to
\* nsegments segments (own samples first, zeros behind) and the base
\* trajectory of that record is returned, unless the widened sample count
\* exceeds nsamples_max: then ValueError is raised (raised) with the record
\* untouched; any other record is returned unresized with None.  closed
\* tells whether the call reached a prot.close() for the protocol dataset it
\* opened: the four role branches and the end of the widening block have one.
insert_acq(it, h, noncartesian) ==
    IF it.flags \cap {NOISE, PHASECORR, DUMMY, CALIB} # {}
    THEN [item |-> it, base |-> None, raised |-> FALSE, closed |-> TRUE]
    ELSE IF noncartesian /\ it.seg = 0
    THEN IF it.samples * h.nsegments > nsamples_max
         THEN [item |-> it, base |-> None, raised |-> TRUE, closed |-> FALSE]
         ELSE [item |-> [it EXCEPT !.samples = it.samples * h.nsegments,
                                   !.data = [i \in 1..h.nsegments |->
                                               IF i = 1 THEN it.id ELSE Zero]],
               base |-> [tag |-> "base_trj", of |-> it.id], raised |-> FALSE,
               closed |-> TRUE]
    ELSE [item |-> it, base |-> None, raised |-> FALSE, closed |-> FALSE]

\* a caller that drops the value insert_acq returns
KeepBase_Dropped(s, ins) == s

\* `base_traj = insert_acq(...); if base_traj is not None: base_trj = base_traj`
KeepBase(s, ins) == IF ins.base # None THEN [s EXCEPT !.base_trj = ins.base] ELSE s

\* ------------------------------------------------------------------ bart_pics_pulseq.process
PicsEmit(s, it) ==
    IF Completes(it)
    THEN LET s1 == IF s.sensmaps[it.slc] = None
                   THEN [s EXCEPT !.sensmaps[it.slc] = process_acs(s.acsGroup[it.slc], s.dmtx)]
                   ELSE s
         IN Then(SendImage(s1, s1.acqGroup[<< >>], s1.dmtx, s1.sensmaps[it.slc]), << >>)
    ELSE s

PicsBody(s0, it0) ==
    LET it == insert_acq(it0, hdr, FALSE).item
        s == [s0 EXCEPT !.item = it]
    IN
    IF Has(it, NOISE) THEN AppendNoise(s, it)
    ELSE LET s1 == BuildNoise(s, FALSE) IN
         IF Has(it, PHASECORR) THEN s1
         ELSE IF Has(it, CALIB) THEN AppendCalib(s1, it)
         ELSE PicsEmit([s1 EXCEPT !.acqGroup[<< >>] = Append(@, it)], it)

\* ------------------------------------------------------------------ segments (dream, powergrid)
\* the segment handling with the append outside the `if`: every segment is
\* appended as a readout of its own (the variant C12 is tried on)
StoreSegment_AppendAll(s, it, key) ==
    [s EXCEPT !.acqGroup[key] = Append(@, it),
              !.pred_trj = [tag |-> "pred_trj", of |-> it.id],
              !.shift = [tag |-> "shift", of |-> it.id]]

\* the segment handling with the offset of a later segment one segment too
\* low (the variant C13 is tried on)
StoreSegment_OffsetLow(s, it, key) ==
    IF it.seg = 0
    THEN [s EXCEPT !.acqGroup[key] = Append(@, it),
                   !.pred_trj = [tag |-> "pred_trj", of |-> it.id],
                   !.shift = [tag |-> "shift", of |-> it.id]]
    ELSE IF Len(s.acqGroup[key]) = 0 THEN Raise(s, "IndexError")
    ELSE [s EXCEPT !.acqGroup[key][Len(s.acqGroup[key])].data[it.seg] = it.id]

\* `if item.idx.segment == 0: ... else: ...` : a segment 0 opens a readout and
\* records pred_trj and shift; a later segment is written into the last
\* readout of the buffer (IndexError on an empty buffer).
StoreSegment(s, it, key) ==
    IF it.seg = 0
    THEN [s EXCEPT !.acqGroup[key] = Append(@, it),
                   !.pred_trj = [tag |-> "pred_trj", of |-> it.id],
                   !.shift = [tag |-> "shift", of |-> it.id]]
    ELSE IF Len(s.acqGroup[key]) = 0 THEN Raise(s, "IndexError")
    ELSE [s EXCEPT !.acqGroup[key][Len(s.acqGroup[key])].data[it.seg + 1] = it.id]

\* fov_shift_spiral_reapply(sig, pred_trj, base_trj, shift, matr_sz) on the
\* last readout of the buffer
Reapply(s, key) ==
    IF s.pred_trj = Unbound THEN Raise(s, "UnboundLocalError")
    ELSE [s EXCEPT !.acqGroup[key][Len(s.acqGroup[key])].fov =
                       Append(@, [pred |-> s.pred_trj, base |-> s.base_trj, shift |-> s.shift])]

\* ------------------------------------------------------------------ process_spiral_dream
\* calibration branch: append; on last-in-slice compute the map and clear
DreamCalib(s, it) ==
    LET s1 == AppendCalib(s, it) IN
    IF Has(it, LAST_IN_SLICE)
    THEN [s1 EXCEPT !.sensmaps[it.slc] = process_acs(s1.acsGroup[it.slc], s1.dmtx),
                    !.acsGroup[it.slc] = << >>]
    ELSE s1

\* slices written and the slice each is copied from
CopyTargets(n) == IF n % 2 = 0 THEN {i \in 0..(n - 2) : i % 2 = 0} ELSE {i \in 1..(n - 1) : i % 2 = 1}

CopySource(n, i) == IF n % 2 = 0 THEN i + 1 ELSE i - 1

\* "Copy sensitivity maps if less slices were acquired"
CopySensmaps(s, n) ==
    LET have == Cardinality({i \in 0..(n - 1) : s.sensmaps[i] # None})
        bad == {i \in CopyTargets(n) : s.sensmaps[CopySource(n, i)] = None}
        upto == IF bad = {} THEN n ELSE CHOOSE i \in bad : \A j \in bad : i <= j
        copied == [s EXCEPT !.sensmaps =
                      [i \in 0..(n - 1) |->
                          IF i \in CopyTargets(n) /\ i < upto THEN s.sensmaps[CopySource(n, i)]
                          ELSE s.sensmaps[i]]]
    IN IF have # n /\ have # 0
       THEN (IF bad = {} THEN copied ELSE Raise(copied, "AttributeError"))
       ELSE s

DreamEmit(s, it, key) ==
    IF Completes(it)
    THEN Then(SendImage(s, s.acqGroup[key], s.dmtx, s.sensmaps[it.slc]), key)
    ELSE s

DreamBody(s, it0) ==
    LET ins == insert_acq(it0, hdr, TRUE)
        it == ins.item
        key == <<it.contr, it.slc>>
        s0 == KeepBase([s EXCEPT !.item = it], ins)
    IN IF ins.raised THEN Raise(s0, "ValueError")
       ELSE IF Has(it, NOISE) THEN AppendNoise(s0, it)
       ELSE LET s1 == BuildNoise(s0, TRUE) IN
            IF Has(it, PHASECORR) THEN s1
            ELSE IF Has(it, DUMMY) THEN s1
            ELSE IF Has(it, CALIB) THEN DreamCalib(s1, it)
            ELSE LET s2 == CopySensmaps(s1, hdr.n_slc) IN
                 IF Failed(s2) THEN s2
                 ELSE LET s3 == StoreSegment(s2, it, key) IN
                      IF Failed(s3) THEN s3
                      ELSE LET s4 == IF it.seg = hdr.nsegments - 1 THEN Reapply(s3, key) ELSE s3 IN
                           IF Failed(s4) THEN s4 ELSE DreamEmit(s4, it, key)

\* ------------------------------------------------------------------ powergrid_pulseq.process
\* long navigator: `if phs is None: phs = []` then `phs.append(...)`; once phs
\* has been turned into an array it has no append
PowergridNavigator(s) ==
    IF s.phs = None THEN [s EXCEPT !.phs = [tag |-> "list", n |-> 1]]
    ELSE IF s.phs.tag = "list" THEN [s EXCEPT !.phs = [tag |-> "list", n |-> s.phs.n + 1]]
    ELSE Raise(s, "AttributeError")

\* `if type(phs) == list:` : the navigator list becomes the phase array
PowergridPhase(s) ==
    IF s.phs # None /\ s.phs.tag = "list" THEN [s EXCEPT !.phs = [tag |-> "array", n |-> s.phs.n]]
    ELSE s

PowergridCalib(s, it) ==
    LET s1 == AppendCalib(s, it) IN
    IF Has(it, LAST_IN_SLICE)
    THEN [s1 EXCEPT !.sensmaps[it.slc] = process_acs(s1.acsGroup[it.slc], s1.dmtx),
                    !.acsGroup[it.slc] = << >>]
    ELSE s1

\* `if item.idx.segment == nsegments - 1:` block.  Without a noise matrix the
\* samples are read from acqGroup[slice][-1], which is a list of readouts and
\* has no attribute data.
PowergridFinish(s, it, key) ==
    IF s.dmtx = None THEN Raise(s, "AttributeError")
    ELSE LET s1 == [s EXCEPT !.acqGroup[key][Len(s.acqGroup[key])].white = s.dmtx]
             s2 == Reapply(s1, key)
         IN IF Failed(s2) THEN s2
            ELSE IF it.contr > 0 /\ ~hdr.dirs THEN Raise(s2, "NameError")
            ELSE IF it.contr > 0 /\ s2.phs = None THEN Raise(s2, "TypeError")
            ELSE s2

sens_from_raw(group) == [tag |-> "sens", src |-> "raw", ids |-> Ids(group), dmtx |-> None]

\* `if LAST_IN_SLICE or LAST_IN_REPETITION:` block
PowergridSens(s, it, key) ==
    IF Completes(it) /\ s.sensmaps[it.slc] = None
    THEN [s EXCEPT !.sensmaps[it.slc] = sens_from_raw(s.acqGroup[key])]
    ELSE s

RECURSIVE Flatten(_, _)
\* the readouts of all buffers in the order process_raw walks them
Flatten(groups, keys) ==
    IF keys = {} THEN << >>
    ELSE LET k == CHOOSE x \in keys : \A y \in keys : x[1] < y[1] \/ (x[1] = y[1] /\ x[2] <= y[2])
         IN groups[k] \o Flatten(groups, keys \ {k})

\* process_raw(acqGroup, ...): stacks the sensitivity maps (all must be
\* arrays), writes the acquisitions (at least one), clears the list it was given
\* process_raw writes the header for PowerGrid: with one contrast the
\* acquisitions are averaged before the reconstruction and the header's
\* limit of the average index is set to 0, on the object the caller holds
WriteHeader(md) == IF hdr.n_contr = 1 THEN [md EXCEPT !.average_maximum = 0] ELSE md

PowergridRaw(s0) ==
    LET s == [s0 EXCEPT !.metadata = WriteHeader(@)]
    IN IF \E i \in DOMAIN s.sensmaps : s.sensmaps[i] = None THEN Raise(s, "ValueError")
       ELSE IF \A k \in DOMAIN s.acqGroup : Len(s.acqGroup[k]) = 0
            THEN Raise(s, "UnboundLocalError")
       ELSE SendImage([s EXCEPT !.acqGroup = << >>],
                      Flatten(s.acqGroup, DOMAIN s.acqGroup), s.dmtx, s.sensmaps)

PowergridMeasurement(s, it) == IF Has(it, LAST_IN_MEASUREMENT) THEN PowergridRaw(s) ELSE s

PowergridBody(s, it0) ==
    LET ins == insert_acq(it0, hdr, TRUE)
        it == ins.item
        key == <<it.slc, it.contr>>
        s0 == KeepBase([s EXCEPT !.item = it], ins)
    IN IF ins.raised THEN Raise(s0, "ValueError")
       ELSE IF Has(it, NOISE) THEN AppendNoise(s0, it)
       ELSE LET s1 == BuildNoise(s0, TRUE) IN
            IF Has(it, PHASECORR) THEN PowergridNavigator(s1)
            ELSE IF Has(it, DUMMY) THEN s1
            ELSE LET s2 == PowergridPhase(s1) IN
                 IF Has(it, CALIB) THEN PowergridCalib(s2, it)
                 ELSE IF key \notin DOMAIN s2.acqGroup THEN Raise(s2, "IndexError")
                 ELSE LET s3 == StoreSegment(s2, it, key) IN
                      IF Failed(s3) THEN s3
                      ELSE LET s4 == IF it.seg = hdr.nsegments - 1
                                     THEN PowergridFinish(s3, it, key) ELSE s3 IN
                           IF Failed(s4) THEN s4
                           ELSE PowergridMeasurement(PowergridSens(s4, it, key), it)

\* ------------------------------------------------------------------ loop
\* one iteration of `for item in connection` with the try/finally around it:
\* n is the loop body's result for stream record r
Step(n, r) ==
       /\ item' = n.item
       /\ acq_ctr' = acq_ctr + 1
       /\ pc' = n.pc
       /\ err' = n.err
       /\ noiseGroup' = n.noiseGroup
       /\ dmtx' = n.dmtx
       /\ acsGroup' = n.acsGroup
       /\ sensmaps' = n.sensmaps
       /\ sensmaps_jemris' = n.sensmaps_jemris
       /\ acqGroup' = n.acqGroup
       /\ base_trj' = n.base_trj
       /\ pred_trj' = n.pred_trj
       /\ shift' = n.shift
       /\ phs' = n.phs
       /\ sent' = IF Failed(n) THEN Append(n.sent, Close) ELSE n.sent
       /\ cur_rep' = IF LAST_IN_REPETITION \in r.flags THEN cur_rep + 1 ELSE cur_rep
       /\ log' = n.log
       /\ passed' = None
       /\ metadata' = n.metadata
       /\ UNCHANGED <<pipe, hdr, marker, waveformGroup, call>>

\* ------------------------------------------------------------------ after the loop
\* The code after the loop.  mk tells that the loop was left by the None item
\* that marks the end of the stream (`elif item is None: break`), so that the
\* loop variable is None there; otherwise the connection was exhausted and the
\* loop variable is the last item taken (unbound when there was none).
Untriggered == "Processing a group of k-space data (untriggered)"

NotProcessed == "There was untriggered k-space data that will not get processed."

\* bart_pics_pulseq: "Process any remaining groups" with the last item's slice
PicsFlush(s, mk) ==
    IF Len(s.acqGroup[<< >>]) > 0
    THEN LET s0 == [s EXCEPT !.log = Append(@, Untriggered)] IN
         IF mk \/ passed # None THEN Raise(s0, "AttributeError")
         ELSE LET s1 == IF s0.sensmaps[item.slc] = None
                        THEN [s0 EXCEPT !.sensmaps[item.slc] =
                                           process_acs(s0.acsGroup[item.slc], s0.dmtx)]
                        ELSE s0
              IN Then(SendImage(s1, s1.acqGroup[<< >>], s1.dmtx, s1.sensmaps[item.slc]),
                      << >>)
    ELSE s

\* process_spiral_dream: the untriggered group of the last item is handed to
\* process_raw without the protocol arrays, which process_raw subscripts
DreamFlush(s, mk) ==
    IF mk THEN s
    ELSE IF passed # None THEN Raise(s, "AttributeError")
    ELSE IF item = Unbound THEN Raise(s, "UnboundLocalError")
    ELSE IF Len(s.acqGroup[<<item.contr, item.slc>>]) > 0
    THEN LET s0 == [s EXCEPT !.log = Append(@, Untriggered)]
             s1 == IF s0.sensmaps[item.slc] = None
                   THEN [s0 EXCEPT !.sensmaps[item.slc] =
                                      process_acs(s0.acsGroup[item.slc], s0.dmtx)]
                   ELSE s0
         IN Raise(s1, "TypeError")
    ELSE s

\* powergrid_pulseq: untriggered data is logged and the local list rebound
PowergridFlush(s, mk) ==
    IF mk THEN s
    ELSE IF passed = None /\ item = Unbound THEN Raise(s, "UnboundLocalError")
    ELSE [s EXCEPT !.log = Append(@, NotProcessed), !.acqGroup = << >>]

\* "Extract raw ECG waveform data": the list is sorted by time stamp and the
\* data of the waveforms with waveform_id 0 are concatenated; np.concatenate
\* raises on an empty list
ExtractEcg(s) ==
    IF Len(s.waveformGroup) > 0
    THEN LET sorted == SortSeq(s.waveformGroup, LAMBDA a, b : a.time_stamp < b.time_stamp)
             s1 == [s EXCEPT !.waveformGroup = sorted]
         IN IF \E i \in 1..Len(sorted) : sorted[i].waveform_id = 0
            THEN s1 ELSE Raise(s1, "ValueError")
    ELSE s

EndBody(s, mk) ==
    IF pipe = "jemris" THEN s
    ELSE LET s1 == ExtractEcg(s) IN
         IF Failed(s1) THEN s1
         ELSE CASE pipe = "pics" -> PicsFlush(s1, mk)
                [] pipe = "dream" -> DreamFlush(s1, mk)
                [] pipe = "powergrid" -> PowergridFlush(s1, mk)

\* leaving the loop: the code after it, then `finally: send_close()`
Finish(mk) ==
    /\ pc = "loop"
    /\ \E ok \in BOOLEAN :
       LET n == EndBody(Calling(ok), mk)
       IN /\ pc' = IF Failed(n) THEN "failed" ELSE "done"
          /\ err' = n.err
          /\ sensmaps' = n.sensmaps
          /\ acqGroup' = n.acqGroup
          /\ log' = n.log
          /\ sent' = Append(n.sent, Close)
          /\ waveformGroup' = n.waveformGroup
    /\ marker' = mk
    /\ UNCHANGED <<pipe, hdr, cur_rep, item, acq_ctr, noiseGroup, dmtx, acsGroup,
                   sensmaps_jemris, base_trj, pred_trj, shift, phs, passed, metadata, call>>

\* the connection is exhausted
EndStream == Finish(FALSE)

\* the connection delivers the None item that ends the stream (bart_jemris
\* has no branch for it: its loop passes over the item and ends by exhaustion)
EndMarker == Finish(TRUE)

\* an ismrmrd.Image of the input stream (n is its position in the stream)
ImageItem(n) == [tag |-> "ismrmrd.Image", id |-> n]

\* an ismrmrd.Waveform of the input stream; the time stamps of the stream
\* increase with the position
WaveformItem(n, w) == [tag |-> "ismrmrd.Waveform", id |-> n, waveform_id |-> w, time_stamp |-> n]

\* waveform_id 0 is the ECG, any other id is another physiological signal
WaveformIds == {0, 1}

\* the Image and Waveform items a pipeline has handled so far
Handled == Len(SelectSeq(sent, LAMBDA m : m.tag = "ismrmrd.Image")) + Len(waveformGroup)

\* `elif isinstance(item, ismrmrd.Image): connection.send_image(item)`;
\* bart_jemris has no branch for it
RouteImage ==
    /\ pc = "loop" /\ acq_ctr < MaxItems /\ Handled < MaxPass
    /\ acq_ctr' = acq_ctr + 1
    /\ passed' = ImageItem(acq_ctr)
    /\ sent' = IF pipe = "jemris" THEN sent ELSE Append(sent, ImageItem(acq_ctr))
    /\ UNCHANGED <<pipe, hdr, cur_rep, pc, err, item, noiseGroup, dmtx, acsGroup, sensmaps,
                   sensmaps_jemris, acqGroup, base_trj, pred_trj, shift, phs, log, marker,
                   waveformGroup, metadata, call>>

\* `elif isinstance(item, ismrmrd.Waveform): waveformGroup.append(item)`;
\* bart_jemris has no branch for it
RouteWaveform ==
    /\ pc = "loop" /\ acq_ctr < MaxItems /\ Handled < MaxPass
    /\ acq_ctr' = acq_ctr + 1
    /\ \E w \in WaveformIds :
          /\ passed' = WaveformItem(acq_ctr, w)
          /\ waveformGroup' = IF pipe = "jemris" THEN waveformGroup
                              ELSE Append(waveformGroup, WaveformItem(acq_ctr, w))
    /\ UNCHANGED <<pipe, hdr, cur_rep, pc, err, item, noiseGroup, dmtx, acsGroup, sensmaps,
                   sensmaps_jemris, acqGroup, base_trj, pred_trj, shift, phs, log, marker,
                   sent, metadata, call>>

RouteJemris ==
    /\ pipe = "jemris" /\ pc = "loop" /\ acq_ctr < MaxItems
    /\ \E r \in Acquisitions(pipe, hdr), ok \in BOOLEAN :
          Step(JemrisBody(Calling(ok), Arrive(r, acq_ctr)), r)

RoutePics ==
    /\ pipe = "pics" /\ pc = "loop" /\ acq_ctr < MaxItems
    /\ \E r \in Acquisitions(pipe, hdr), ok \in BOOLEAN :
          Step(PicsBody(Calling(ok), Arrive(r, acq_ctr)), r)

RouteDream ==
    /\ pipe = "dream" /\ pc = "loop" /\ acq_ctr < MaxItems
    /\ \E r \in Acquisitions(pipe, hdr), ok \in BOOLEAN :
          Step(DreamBody(Calling(ok), Arrive(r, acq_ctr)), r)

RoutePowergrid ==
    /\ pipe = "powergrid" /\ pc = "loop" /\ acq_ctr < MaxItems
    /\ \E r \in Acquisitions(pipe, hdr), ok \in BOOLEAN :
          Step(PowergridBody(Calling(ok), Arrive(r, acq_ctr)), r)

\* no function is called on its own
NoCall == [fn |-> "none"]

\* the locals of process() after its initialisation
Fresh ==
    /\ pipe \in Pipelines
    /\ hdr \in Headers(pipe)
    /\ cur_rep = 0
    /\ pc = "loop"
    /\ err = None
    /\ item = Unbound
    /\ acq_ctr = 0
    /\ noiseGroup = << >>
    /\ dmtx = None
    /\ acsGroup = [s \in 0..(hdr.n_slc - 1) |-> << >>]
    /\ sensmaps = [s \in 0..(hdr.n_slc - 1) |-> None]
    /\ sensmaps_jemris = << >>
    /\ acqGroup = [k \in GroupKeys(pipe, hdr) |-> << >>]
    /\ base_trj = None
    /\ pred_trj = Unbound
    /\ shift = Unbound
    /\ phs = None
    /\ sent = << >>
    /\ log = << >>
    /\ marker = FALSE
    /\ passed = None
    /\ waveformGroup = << >>
    /\ metadata = [average_maximum |-> IF pipe = "powergrid" THEN 1 ELSE 0]

Init == Fresh /\ call = NoCall

Next ==
    \/ RouteJemris
    \/ RoutePics
    \/ RouteDream
    \/ RoutePowergrid
    \/ RouteImage
    \/ RouteWaveform
    \/ EndStream
    \/ EndMarker

Spec == Init /\ [][Next]_vars

\* ------------------------------------------------------------------ sort_into_kspace
\* sort_into_kspace of bart_pics_pulseq (p = "pics") and of
\* bart_pulseq_spiral_dream and powergrid_pulseq (any other p), for one
\* receiver channel.  m is
\* encodedSpace.matrixSize, a record of the group is [enc1, enc2, data] with
\* data the sequence of its samples, dm is None or a whitening factor.
Min(a, b) == IF a < b THEN a ELSE b

Max(a, b) == IF a > b THEN a ELSE b

\* the readout length and the number of rows of the k-space array
SorterNx(p, m) == IF p = "pics" THEN m.x ELSE 2 * m.x

SorterNy(p, m) == IF p = "pics" THEN m.y ELSE m.x

\* counter is an array of uint16
CounterModulus == 65536

\* the columns slice(cx - ccol, cx + ccol) selects on an axis of length nx:
\* Python counts a negative bound from the end and clips both bounds
Window(nx, ncol) ==
    LET cx == nx \div 2
        ccol == ncol \div 2
        lo == IF cx - ccol < 0 THEN Max(cx - ccol + nx, 0) ELSE Min(cx - ccol, nx)
        hi == Min(cx + ccol, nx)
    IN [lo |-> lo, len |-> Max(hi - lo, 0)]

\* apply_prewhitening for one channel: a scaling of the samples
apply_prewhitening(data, dm) == [c \in 1..Len(data) |-> dm.scale * data[c]]

\* largest encoding step of the group, as the first loop finds it (0 at least)
RECURSIVE EncMax(_, _, _)
EncMax(group, i, f) ==
    IF i > Len(group) THEN 0
    ELSE Max(IF f = 1 THEN group[i].enc1 ELSE group[i].enc2, EncMax(group, i + 1, f))

\* a recentring that takes half of the largest step instead of half of the
\* number of steps
Recentred_Floor(enc, n, enc_max) == enc + (n \div 2) - (enc_max \div 2)

\* zf_around_center: `cy = ny // 2; cenc1 = (enc1_max+1) // 2; enc1 += cy - cenc1`
Recentred(enc, n, enc_max) == enc + (n \div 2) - ((enc_max + 1) \div 2)

\* `kspace[enc1, enc2, :, col] += data; counter[enc1, enc2] += 1` for the
\* records i.. of the group; ks is [kspace, counter] or an exception.  An
\* index below zero counts from the end of the axis; the samples must be as
\* many as the columns of the window, or a single one (broadcast).
RECURSIVE Accumulate(_, _, _, _, _, _, _)
Accumulate(group, i, ks, nx, ny, nz, opt) ==
    IF i > Len(group) THEN ks
    ELSE LET acq == group[i]
             w == Window(nx, Len(acq.data))
             e1 == IF opt.zf THEN Recentred(acq.enc1, ny, EncMax(group, 1, 1)) ELSE acq.enc1
             e2 == IF opt.zf THEN Recentred(acq.enc2, nz, EncMax(group, 1, 2)) ELSE acq.enc2
             r1 == IF e1 < 0 THEN e1 + ny ELSE e1
             r2 == IF e2 < 0 THEN e2 + nz ELSE e2
             data == IF opt.dmtx = None THEN acq.data ELSE apply_prewhitening(acq.data, opt.dmtx)
         IN IF r1 < 0 \/ r1 >= ny \/ r2 < 0 \/ r2 >= nz THEN [tag |-> "IndexError"]
            ELSE IF w.len # Len(data) /\ Len(data) # 1 THEN [tag |-> "ValueError"]
            ELSE Accumulate(group, i + 1,
                   [tag |-> "sums",
                    kspace |-> [ks.kspace EXCEPT ![<<r1, r2>>] =
                                  [c \in 0..(nx - 1) |->
                                     IF c >= w.lo /\ c < w.lo + w.len
                                     THEN @[c] + (IF Len(data) = 1 THEN data[1]
                                                  ELSE data[c - w.lo + 1])
                                     ELSE @[c]]],
                    counter |-> [ks.counter EXCEPT ![<<r1, r2>>] = (@ + 1) % CounterModulus]],
                   nx, ny, nz, opt)

\* The result: an exception, or for every cell of the [ny, nz] grid the hit
\* counter and, per column, the quotient num/den that
\* `kspace /= np.maximum(1, counter)` leaves there.  group[0] is read first.
sort_into_kspace(p, group, m, dm, zf_around_center) ==
    IF Len(group) = 0 THEN [tag |-> "IndexError"]
    ELSE LET nx == SorterNx(p, m)
             ny == SorterNy(p, m)
             nz == m.z
             cells == (0..(ny - 1)) \X (0..(nz - 1))
             zero == [tag |-> "sums",
                      kspace |-> [e \in cells |-> [c \in 0..(nx - 1) |-> 0]],
                      counter |-> [e \in cells |-> 0]]
             acc == Accumulate(group, 1, zero, nx, ny, nz,
                               [dmtx |-> dm, zf |-> zf_around_center])
         IN IF acc.tag # "sums" THEN acc
            ELSE [tag |-> "kspace",
                  counter |-> acc.counter,
                  kspace |-> [e \in cells |->
                                [c \in 0..(nx - 1) |->
                                   [num |-> acc.kspace[e][c], den |-> Max(1, acc.counter[e])]]]]

\* -- the sorter called on its own
\* the matrix sizes, sample counts and sample values that are tried
Matrices == [x : 2..(MaxMatrix + 1), y : 1..MaxMatrix, z : 1..MaxMatrix]

SampleLengths == 2..(MaxMatrix + 2)

Pending == [tag |-> "pending"]

\* a record of the group with encoding steps inside the sorter's grid; its
\* samples differ from column to column and, with v, from record to record
SortRecord(e1, e2, ncol, v) == [enc1 |-> e1, enc2 |-> e2, data |-> [c \in 1..ncol |-> 10 * v + c]]

SortInit ==
    /\ Fresh
    /\ pipe \in {"pics", "dream", "powergrid"}
    /\ hdr.n_slc = 1 /\ hdr.nsegments = 1 /\ hdr.n_contr = 1
    /\ \E m \in Matrices, n \in SampleLengths, zf \in BOOLEAN, same \in BOOLEAN,
          dm \in {None, [tag |-> "dmtx", scale |-> 2]} :
          call = [fn |-> "sort_into_kspace", m |-> m, ncol |-> n, dmtx |-> dm, zf |-> zf,
                  same |-> same, group |-> << >>, out |-> Pending]

\* one more record is put into the group; the records of a group have all
\* the same samples (call.same) or each its own
SortAppend ==
    /\ call.fn = "sort_into_kspace" /\ call.out = Pending /\ Len(call.group) < MaxGroup
    /\ \E e1 \in 0..(SorterNy(pipe, call.m) - 1), e2 \in 0..(call.m.z - 1) :
          call' = [call EXCEPT !.group =
                     Append(@, SortRecord(e1, e2, call.ncol,
                                          IF call.same THEN 1 ELSE Len(call.group) + 1))]
    /\ UNCHANGED <<pipe, hdr, cur_rep, pc, err, item, acq_ctr, noiseGroup, dmtx, acsGroup,
                   sensmaps, sensmaps_jemris, acqGroup, base_trj, pred_trj, shift, phs, sent,
                   log, marker, passed, waveformGroup, metadata>>

\* the sorter is called on the group
SortCall ==
    /\ call.fn = "sort_into_kspace" /\ call.out = Pending
    /\ call' = [call EXCEPT !.out = sort_into_kspace(pipe, call.group, call.m, call.dmtx,
                                                     call.zf)]
    /\ UNCHANGED <<pipe, hdr, cur_rep, pc, err, item, acq_ctr, noiseGroup, dmtx, acsGroup,
                   sensmaps, sensmaps_jemris, acqGroup, base_trj, pred_trj, shift, phs, sent,
                   log, marker, passed, waveformGroup, metadata>>

SortNext == SortAppend \/ SortCall

SortSpec == SortInit /\ [][SortNext]_vars

\* ------------------------------------------------------------------ pulseq_prot.calc_traj
\* calc_traj and grad_pred on whole numbers.  A gradient is a sequence of
\* rows (one per axis) of equally many samples.  The impulse response is
\* given by what it does to a gradient: the filter that grad_pred applies in
\* frequency space is a circular convolution in time, here with a kernel of
\* one tap per axis (gain and delay) and a gain for the zeroth-order term.
zeros == 10

\* np.concatenate((np.zeros([dims, zeros]), grad, np.zeros([dims, zeros])), axis=1)
ZeroPad(row) == [i \in 1..zeros |-> 0] \o row \o [i \in 1..zeros |-> 0]

\* np.cumsum along the samples
RECURSIVE SumTo(_, _)
SumTo(row, t) == IF t = 0 THEN 0 ELSE row[t] + SumTo(row, t - 1)

cumsum(row) == [t \in 1..Len(row) |-> SumTo(row, t)]

\* a row multiplied by a factor
Scaled(row, f) == [t \in 1..Len(row) |-> f * row[t]]

\* gcs_to_dcs and dcs_to_gcs for the rotation matrices tried: the identity
\* and the exchange of the first two axes (its own inverse)
gcs_to_dcs(g, rot) == IF rot = "swap" THEN <<g[2], g[1], g[3]>> ELSE g

dcs_to_gcs(g, rot) == IF rot = "swap" THEN <<g[2], g[1], g[3]>> ELSE g

\* the filtered axis without the cut to the length of the gradient
Filtered_Uncut(row, girf, n) ==
    LET len == Max(n, Len(row))
        full == row \o [i \in 1..(len - Len(row)) |-> 0]
    IN [t \in 1..len |-> girf.gain * full[((t - 1 - girf.delay + len) % len) + 1]]

\* one axis filtered: zero-filled to the length n of the response, delayed
\* circularly, scaled, and cut to its own length
Filtered(row, girf, n) ==
    LET len == Max(n, Len(row))
        full == row \o [i \in 1..(len - Len(row)) |-> 0]
    IN [t \in 1..Len(row) |-> girf.gain * full[((t - 1 - girf.delay + len) % len) + 1]]

\* grad_pred: row 1 is the zeroth-order field, rows 2.. are the axes
grad_pred(g, girf) ==
    LET f == [d \in 1..3 |-> Filtered(g[d], girf, girf.n)]
    IN <<[t \in 1..Len(g[1]) |-> girf.k0 * (f[1][t] + f[2][t] + f[3][t])]>> \o f

\* intp_axis onto the ncol sampling times of the ADC: the sample of the
\* gradient raster each sampling time falls on
intp_axis(row, ncol) == [j \in 1..ncol |-> row[zeros + 1 + ((j - 1) * (Len(row) - 2 * zeros)) \div ncol]]

\* calc_traj(acq, hdr, ncol): acq gives the nominal gradient (2 or 3 rows),
\* the rotation and the partition, hdr the field of view fov and matrixSize.z
calc_traj(acq, hdr_, ncol, girf) ==
    LET dims == Len(acq.traj)
        padded == [d \in 1..dims |-> ZeroPad(acq.traj[d])]
        grad == IF dims = 2 THEN Append(padded, [i \in 1..Len(padded[1]) |-> 0]) ELSE padded
        pred_all == grad_pred(gcs_to_dcs(grad, acq.rot), girf)
        pred_grad == dcs_to_gcs(SubSeq(pred_all, 2, 4), acq.rot)
        k0 == cumsum(pred_all[1])
        pred0 == [d \in 1..3 |-> Scaled(cumsum(pred_grad[d]), hdr_.fov)]
        base0 == [d \in 1..3 |-> Scaled(cumsum(grad[d]), hdr_.fov)]
        kz == acq.partition - (hdr_.nz \div 2)
        pred1 == IF dims = 2 THEN [pred0 EXCEPT ![3] = [t \in 1..Len(grad[3]) |-> kz]] ELSE pred0
    IN [tag |-> "traj",
        pred_trj |-> [d \in 1..3 |-> intp_axis(pred1[d], ncol)],
        base_trj |-> [d \in 1..3 |-> intp_axis(base0[d], ncol)],
        k0 |-> intp_axis(k0, ncol)]

\* -- calc_traj called on its own
\* the impulse responses tried; the first is the identity
Girfs == [gain : {1, 2}, delay : {0, 1}, k0 : {0, 1}, n : {2 * zeros + MaxGrad + 1}]

IsIdentity(girf) == girf.gain = 1 /\ girf.delay = 0 /\ girf.k0 = 0

CalcInit ==
    /\ Fresh
    /\ pipe = "powergrid" /\ hdr.n_slc = 1 /\ hdr.nsegments = 1 /\ hdr.n_contr = 1
    /\ \E dims \in {2, 3}, girf \in Girfs, rot \in {"id", "swap"}, nz \in 1..MaxMatrix,
          fov \in {1, 2} :
          \E partition \in 0..(nz - 1) :
             call = [fn |-> "calc_traj",
                     acq |-> [traj |-> [d \in 1..dims |-> << >>], rot |-> rot,
                              partition |-> partition],
                     hdr |-> [fov |-> fov, nz |-> nz], girf |-> girf, out |-> Pending]

\* one more sample of the nominal gradient, on every axis
CalcAppend ==
    /\ call.fn = "calc_traj" /\ call.out = Pending /\ Len(call.acq.traj[1]) < MaxGrad
    /\ \E g \in [1..Len(call.acq.traj) -> {0, 1}] :
          call' = [call EXCEPT !.acq.traj = [d \in 1..Len(call.acq.traj) |->
                                                Append(call.acq.traj[d], g[d])]]
    /\ UNCHANGED <<pipe, hdr, cur_rep, pc, err, item, acq_ctr, noiseGroup, dmtx, acsGroup,
                   sensmaps, sensmaps_jemris, acqGroup, base_trj, pred_trj, shift, phs, sent,
                   log, marker, passed, waveformGroup, metadata>>

\* calc_traj is called for a readout of as many samples as the gradient has
CalcCall ==
    /\ call.fn = "calc_traj" /\ call.out = Pending /\ Len(call.acq.traj[1]) > 0
    /\ call' = [call EXCEPT !.out = calc_traj(call.acq, call.hdr, Len(call.acq.traj[1]),
                                              call.girf)]
    /\ UNCHANGED <<pipe, hdr, cur_rep, pc, err, item, acq_ctr, noiseGroup, dmtx, acsGroup,
                   sensmaps, sensmaps_jemris, acqGroup, base_trj, pred_trj, shift, phs, sent,
                   log, marker, passed, waveformGroup, metadata>>

CalcNext == CalcAppend \/ CalcCall

CalcSpec == CalcInit /\ [][CalcNext]_vars

\* -- grad_pred called on its own: a gradient of three axes in the device
\* frame, and an impulse response of 1..MaxGrad+1 samples
GradInit ==
    /\ Fresh
    /\ pipe = "powergrid" /\ hdr.n_slc = 1 /\ hdr.nsegments = 1 /\ hdr.n_contr = 1
    /\ \E girf \in [gain : {1, 2}, delay : {0, 1}, k0 : {0, 1}, n : 1..(MaxGrad + 1)] :
          call = [fn |-> "grad_pred", grad |-> <<<< >>, << >>, << >>>>, girf |-> girf,
                  out |-> Pending]

GradAppend ==
    /\ call.fn = "grad_pred" /\ call.out = Pending /\ Len(call.grad[1]) < MaxGrad
    /\ \E g \in [1..3 -> {0, 1}] :
          call' = [call EXCEPT !.grad = [d \in 1..3 |-> Append(call.grad[d], g[d])]]
    /\ UNCHANGED <<pipe, hdr, cur_rep, pc, err, item, acq_ctr, noiseGroup, dmtx, acsGroup,
                   sensmaps, sensmaps_jemris, acqGroup, base_trj, pred_trj, shift, phs, sent,
                   log, marker, passed, waveformGroup, metadata>>

GradCall ==
    /\ call.fn = "grad_pred" /\ call.out = Pending /\ Len(call.grad[1]) > 0
    /\ call' = [call EXCEPT !.out = grad_pred(call.grad, call.girf)]
    /\ UNCHANGED <<pipe, hdr, cur_rep, pc, err, item, acq_ctr, noiseGroup, dmtx, acsGroup,
                   sensmaps, sensmaps_jemris, acqGroup, base_trj, pred_trj, shift, phs, sent,
                   log, marker, passed, waveformGroup, metadata>>

GradNext == GradAppend \/ GradCall

GradSpec == GradInit /\ [][GradNext]_vars

\* ------------------------------------------------------------------ Dream map
\* process_raw of process_spiral_dream called Group after Group in one stream
\* of MaxSlc slices and MaxContr contrasts: the image sets it keeps between
\* its calls in process_raw.imagesets, and the maps it has computed.
\* process(): process_raw.imagesets = [None] * n_contr
MapInit ==
    /\ pipe = "dream"
    /\ hdr = [n_slc |-> MaxSlc, n_contr |-> MaxContr, nsegments |-> 1, dirs |-> FALSE]
    /\ cur_rep = 0 /\ pc = "loop" /\ err = None /\ item = Unbound /\ acq_ctr = 0
    /\ noiseGroup = << >> /\ dmtx = None
    /\ acsGroup = [s \in 0..(hdr.n_slc - 1) |-> << >>]
    /\ sensmaps = [s \in 0..(hdr.n_slc - 1) |-> None]
    /\ sensmaps_jemris = << >>
    /\ acqGroup = [k \in GroupKeys(pipe, hdr) |-> << >>]
    /\ base_trj = None /\ pred_trj = Unbound /\ shift = Unbound /\ phs = None
    /\ sent = << >> /\ log = << >> /\ marker = FALSE /\ passed = None
    /\ waveformGroup = << >>
    /\ metadata = [average_maximum |-> 0]
    /\ call = [fn |-> "process_raw", imagesets |-> [k \in 0..(hdr.n_contr - 1) |-> None],
               maps |-> << >>, calls |-> 0]

\* full_set_check = all(elem is not None for elem in process_raw.imagesets)
full_set_check(imagesets) == \A k \in DOMAIN imagesets : imagesets[k] # None

\* process_raw.imagesets[group[0].idx.contrast] = data.copy(), for the n-th
\* Group reconstructed, of contrast contr and slice slc
StoreImageSet(imagesets, contr, slc, n) ==
    [imagesets EXCEPT ![contr] = [tag |-> "imageset", contr |-> contr, slc |-> slc, of |-> n]]

\* one call of process_raw: the Group's image set is stored under its
\* contrast; with a full set the maps are computed from the stored sets and
\* the list is freed
MapCall ==
    /\ call.fn = "process_raw" /\ call.calls < MaxItems
    /\ \E contr \in 0..(hdr.n_contr - 1), slc \in 0..(hdr.n_slc - 1) :
          LET stored == StoreImageSet(call.imagesets, contr, slc, call.calls) IN
          call' = [call EXCEPT
                     !.calls = @ + 1,
                     !.maps = IF full_set_check(stored)
                              THEN Append(@, [tag |-> "fa_map", from |-> stored])
                              ELSE @,
                     !.imagesets = IF full_set_check(stored)
                                   THEN [k \in DOMAIN stored |-> None]
                                   ELSE stored]
    /\ UNCHANGED <<pipe, hdr, cur_rep, pc, err, item, acq_ctr, noiseGroup, dmtx, acsGroup,
                   sensmaps, sensmaps_jemris, acqGroup, base_trj, pred_trj, shift, phs, sent,
                   log, marker, passed, waveformGroup, metadata>>

MapNext == MapCall

MapSpec == MapInit /\ [][MapNext]_vars

\* ------------------------------------------------------------------ intensity scaling
\* The attribute process_raw.imascale over the streams that one server process
\* handles, one call of process() per stream, one call of process_raw per
\* emitted Group.
\* what process() does to the attribute when a stream starts: dream sets it
\* to None for every contrast, pics leaves it as it is
StartOfStream(p, scale) == IF p = "dream" THEN None ELSE scale

\* 0.8 / data.max()
Scaling(max) == [tag |-> "imascale", max |-> max]

\* pics: try: process_raw.imascale / except: process_raw.imascale = ...
\* dream: if process_raw.imascale[contr] is None: ...
imascale(old, max) == IF old \in {Unbound, None} THEN Scaling(max) ELSE old

\* a fresh server process: the attribute does not exist before the first stream
ScaleInit ==
    /\ Fresh
    /\ pipe \in {"pics", "dream"}
    /\ hdr.n_slc = 1 /\ hdr.nsegments = 1 /\ hdr.n_contr = 1
    /\ call = [fn |-> "process", imascale |-> StartOfStream(pipe, Unbound), stream |-> 1,
               images |-> << >>]

\* process_raw for one Group whose image has the largest value max: the
\* image is scaled by the remembered scaling, set now if there is none
ScaleCall ==
    /\ call.fn = "process" /\ Len(call.images) < MaxItems
    /\ \E max \in 1..2 :
          call' = [call EXCEPT
                     !.imascale = imascale(@, max),
                     !.images = Append(@, [stream |-> call.stream, max |-> max,
                                           scale |-> imascale(call.imascale, max)])]
    /\ UNCHANGED <<pipe, hdr, cur_rep, pc, err, item, acq_ctr, noiseGroup, dmtx, acsGroup,
                   sensmaps, sensmaps_jemris, acqGroup, base_trj, pred_trj, shift, phs, sent,
                   log, marker, passed, waveformGroup, metadata>>

\* the stream ends and the server calls process() for the next connection
ScaleNextStream ==
    /\ call.fn = "process" /\ call.stream < MaxStreams
    /\ call' = [call EXCEPT !.stream = @ + 1, !.imascale = StartOfStream(pipe, @)]
    /\ UNCHANGED <<pipe, hdr, cur_rep, pc, err, item, acq_ctr, noiseGroup, dmtx, acsGroup,
                   sensmaps, sensmaps_jemris, acqGroup, base_trj, pred_trj, shift, phs, sent,
                   log, marker, passed, waveformGroup, metadata>>

ScaleNext == ScaleCall \/ ScaleNextStream

ScaleSpec == ScaleInit /\ [][ScaleNext]_vars

\* ------------------------------------------------------------------ protocol handles
\* insert_acq called record after record as the routers call it (pics with
\* noncartesian=False, dream and powergrid with a true value): every call
\* opens the protocol dataset; handles counts the datasets opened and not
\* closed by the calls made so far.
InsertInit ==
    /\ Fresh
    /\ pipe \in {"pics", "dream", "powergrid"}
    /\ call = [fn |-> "insert_acq", calls |-> 0, handles |-> 0, out |-> Pending]

InsertCall ==
    /\ call.fn = "insert_acq" /\ call.calls < MaxItems
    /\ call.out # Pending => ~call.out.raised
    /\ \E r \in Acquisitions(pipe, hdr) :
          LET ins == insert_acq(Arrive(r, call.calls), hdr, pipe # "pics") IN
          call' = [call EXCEPT !.calls = @ + 1,
                               !.handles = IF ins.closed THEN @ ELSE @ + 1,
                               !.out = ins]
    /\ UNCHANGED <<pipe, hdr, cur_rep, pc, err, item, acq_ctr, noiseGroup, dmtx, acsGroup,
                   sensmaps, sensmaps_jemris, acqGroup, base_trj, pred_trj, shift, phs, sent,
                   log, marker, passed, waveformGroup, metadata>>

InsertNext == InsertCall

InsertSpec == InsertInit /\ [][InsertNext]_vars

\* ------------------------------------------------------------------ non-uniform sorters
\* A record holds data[channel][sample] and traj[sample][dimension].
\* np.swapaxes(traj, 0, 1): [samples, dims] to [dims, samples]
swapaxes(traj) == [d \in 1..Len(traj[1]) |-> [s \in 1..Len(traj) |-> traj[s][d]]]

\* filt_ksp(kspace, traj, filt_fac) of one record: every sample weighted by
\* the filter at its own k-space position
filt_ksp(kspace, traj) ==
    [c \in 1..Len(kspace) |->
       [s \in 1..Len(kspace[c]) |-> [filtered |-> kspace[c][s],
                                     at |-> <<traj[1][s], traj[2][s], traj[3][s]>>]]]

\* a rearrangement that puts the channels before the acquisitions
Rearranged_ByChannel(sig, trj) ==
    IF Len(sig) = 0 THEN [tag |-> "ValueError"]
    ELSE [tag |-> "sorted",
          sig |-> <<[c \in 1..Len(sig[1]) |->
                       [a \in 1..Len(sig) |-> [s \in 1..Len(sig[1][1]) |-> sig[a][c][s]]]]>>,
          trj |-> [d \in 1..Len(trj[1]) |->
                     [s \in 1..Len(trj[1][1]) |-> [a \in 1..Len(trj) |-> trj[a][d][s]]]]]

\* np.asarray of the two lists, then np.transpose(trj, [1, 2, 0]) and
\* np.transpose(sig, [2, 0, 1])[np.newaxis]
Rearranged(sig, trj) ==
    IF Len(sig) = 0 THEN [tag |-> "ValueError"]
    ELSE [tag |-> "sorted",
          sig |-> <<[s \in 1..Len(sig[1][1]) |->
                       [a \in 1..Len(sig) |-> [c \in 1..Len(sig[1]) |-> sig[a][c][s]]]]>>,
          trj |-> [d \in 1..Len(trj[1]) |->
                     [s \in 1..Len(trj[1][1]) |-> [a \in 1..Len(trj) |-> trj[a][d][s]]]]]

\* one record's data with optional prewhitening
Whitened(acq, dm) ==
    IF dm = None THEN acq.data
    ELSE [c \in 1..Len(acq.data) |-> apply_prewhitening(acq.data[c], dm)]

\* bart_jemris.sort_data; fov stands for fov / (2*np.pi)
sort_data(group, fov, dm) ==
    Rearranged([a \in 1..Len(group) |-> Whitened(group[a], dm)],
               [a \in 1..Len(group) |->
                  [d \in 1..Len(group[a].traj[1]) |->
                     [s \in 1..Len(group[a].traj) |-> fov * swapaxes(group[a].traj)[d][s]]]])

\* sort_spiral_data of bart_pulseq_spiral_dream (with dmtx and the readout
\* filter) and of powergrid_pulseq (x and y exchanged)
sort_spiral_data(p, group, dm) ==
    IF p = "dream"
    THEN IF Len(group) = 0 THEN [tag |-> "IndexError"]
         ELSE LET trj == [a \in 1..Len(group) |-> SubSeq(swapaxes(group[a].traj), 1, 3)]
              IN Rearranged([a \in 1..Len(group) |-> filt_ksp(Whitened(group[a], dm), trj[a])],
                            trj)
    ELSE Rearranged([a \in 1..Len(group) |-> group[a].data],
                    [a \in 1..Len(group) |->
                       LET traj == swapaxes(group[a].traj) IN <<traj[2], traj[1], traj[3]>>])

\* -- the sorters called on their own
\* record number v of a group: C channels, S samples, D trajectory dimensions
NufftRecord(v, C, S, D) ==
    [data |-> [c \in 1..C |-> [s \in 1..S |-> 100 * v + 10 * c + s]],
     traj |-> [s \in 1..S |-> [d \in 1..D |-> 100 * v + 10 * s + d]]]

NufftInit ==
    /\ Fresh
    /\ pipe \in {"jemris", "dream", "powergrid"}
    /\ hdr.n_slc = 1 /\ hdr.nsegments = 1 /\ hdr.n_contr = 1
    /\ \E C \in 1..2, S \in 2..3, dm \in {None, [tag |-> "dmtx", scale |-> 2]} :
          /\ (pipe = "powergrid" => dm = None)
          /\ call = [fn |-> "sort_data", C |-> C, S |-> S, dmtx |-> dm, fov |-> 2,
                     group |-> << >>, out |-> Pending]

\* one more record in the group; the scanner numbers the records as it
\* likes, each differently (two numbers to choose from at every position)
NufftAppend ==
    /\ call.fn = "sort_data" /\ call.out = Pending /\ Len(call.group) < MaxGroup
    /\ \E w \in 0..1 :
          call' = [call EXCEPT !.group =
                     Append(@, NufftRecord(2 * Len(call.group) + w, call.C, call.S,
                                           IF pipe = "jemris" THEN 3 ELSE 5))]
    /\ UNCHANGED <<pipe, hdr, cur_rep, pc, err, item, acq_ctr, noiseGroup, dmtx, acsGroup,
                   sensmaps, sensmaps_jemris, acqGroup, base_trj, pred_trj, shift, phs, sent,
                   log, marker, passed, waveformGroup, metadata>>

NufftCall ==
    /\ call.fn = "sort_data" /\ call.out = Pending
    /\ call' = [call EXCEPT !.out = IF pipe = "jemris"
                                    THEN sort_data(call.group, call.fov, call.dmtx)
                                    ELSE sort_spiral_data(pipe, call.group, call.dmtx)]
    /\ UNCHANGED <<pipe, hdr, cur_rep, pc, err, item, acq_ctr, noiseGroup, dmtx, acsGroup,
                   sensmaps, sensmaps_jemris, acqGroup, base_trj, pred_trj, shift, phs, sent,
                   log, marker, passed, waveformGroup, metadata>>

NufftNext == NufftAppend \/ NufftCall

NufftSpec == NufftInit /\ [][NufftNext]_vars

\* ------------------------------------------------------------------ vocabulary of the claims
\* an iteration of the routing loop has just consumed item'
RouteStep == pc = "loop" /\ acq_ctr' = acq_ctr + 1 /\ passed' = None

\* a record that reaches the imaging branch in every pipeline
Imaging(it) == it.flags \cap {NOISE, PHASECORR, DUMMY, CALIB, SURFCOIL} = {}

NumImages(q) == Cardinality({i \in 1..Len(q) : q[i].tag = "image"})

AnyBuffered == \E k \in DOMAIN acqGroup : Len(acqGroup[k]) > 0

\* ------------------------------------------------------------------ C1
\* C1 (as claimed): in bart_jemris.process and process_spiral_dream, routing
\* an imaging record that carries last-in-slice or last-in-repetition sends
\* exactly one image whose group is the buffer of that slice (slice/contrast)
\* as it stood, with the record itself behind it when it is a segment 0, and
\* leaves that buffer empty; routing any other record sends no image.
C1_EmitOnCompletion ==
    [][ (pipe \in {"jemris", "dream"} /\ RouteStep) =>
          LET it == item'
              key == GroupKey(pipe, it)
          IN IF Imaging(it) /\ Completes(it)
             THEN /\ Len(sent') = Len(sent) + 1
                  /\ sent'[Len(sent')].tag = "image"
                  /\ Ids(sent'[Len(sent')].group)
                       = Ids(acqGroup[key]) \o (IF it.seg = 0 THEN <<it.id>> ELSE << >>)
                  /\ acqGroup'[key] = << >>
             ELSE NumImages(sent') = NumImages(sent) ]_vars

\* ------------------------------------------------------------------ C2
\* C2 (as claimed): in powergrid_pulseq.process the hand-off to process_raw
\* sends one image and leaves every slice/contrast buffer present and empty,
\* and an imaging record for slice 0 routed after a hand-off does not fail
\* with an IndexError.
C2_BuffersUsableAfterHandOff ==
    [][ (pipe = "powergrid" /\ RouteStep) =>
          /\ (NumImages(sent') > NumImages(sent) =>
                /\ NumImages(sent') = NumImages(sent) + 1
                /\ \A k \in GroupKeys(pipe, hdr) :
                      k \in DOMAIN acqGroup' /\ acqGroup'[k] = << >>)
          /\ (NumImages(sent) > 0 /\ Imaging(item') /\ item'.slc = 0 =>
                err' # [tag |-> "IndexError"]) ]_vars

\* ------------------------------------------------------------------ C3
\* C3 (as claimed): all records held in one imaging buffer share slice,
\* contrast and repetition.
C3_SameSliceContrastRepetition ==
    \A k \in DOMAIN acqGroup : \A i, j \in 1..Len(acqGroup[k]) :
        /\ acqGroup[k][i].slc = acqGroup[k][j].slc
        /\ acqGroup[k][i].contr = acqGroup[k][j].contr
        /\ acqGroup[k][i].rep = acqGroup[k][j].rep

\* ------------------------------------------------------------------ C4
\* C4: once dmtx is not None its value never changes.
C4_DmtxAssignedOnce == [][ dmtx # None => dmtx' = dmtx ]_vars

\* noise arrived after the matrix was built, and a non-noise record was
\* routed with that noise buffered
C4_Witness ==
    /\ dmtx # None /\ Len(noiseGroup) > 0
    /\ item # Unbound /\ ~Has(item, NOISE)
    /\ \E i \in 1..Len(noiseGroup) : noiseGroup[i].id < item.id /\ noiseGroup[i].id > dmtx.noise[1]

\* ------------------------------------------------------------------ C5
\* C5 (as claimed): when a non-noise acquisition is routed while the noise
\* buffer is non-empty and dmtx is None, dmtx is built from all buffered
\* noise records and the noise buffer is empty afterwards.
C5_BuildThenClear ==
    [][ (RouteStep /\ ~Has(item', NOISE) /\ Len(noiseGroup) > 0 /\ dmtx = None) =>
          /\ dmtx' = calculate_prewhitening(noiseGroup)
          /\ noiseGroup' = << >> ]_vars

\* ------------------------------------------------------------------ C6
\* C6: routing a noise-flagged record appends it to the noise buffer and
\* changes no imaging buffer, calibration buffer, sensitivity map, dmtx or
\* trajectory state, sends nothing and raises nothing.
C6_NoiseOnlyAppends ==
    [][ (RouteStep /\ Has(item', NOISE)) =>
          /\ noiseGroup' = Append(noiseGroup, item')
          /\ UNCHANGED <<acqGroup, acsGroup, sensmaps, sensmaps_jemris, dmtx,
                         base_trj, pred_trj, shift, phs, sent, pc, err>> ]_vars

\* a noise record with a completion flag was routed while imaging data and a
\* trajectory state were pending
C6_Witness ==
    /\ item # Unbound /\ Has(item, NOISE) /\ Has(item, LAST_IN_SLICE)
    /\ AnyBuffered /\ base_trj # None /\ pc = "loop"

\* ------------------------------------------------------------------ C7
\* C7 (as claimed): a record flagged dummy or phase-navigator is never
\* appended to an imaging buffer or a calibration buffer and never causes an
\* image to be sent.
C7_DummyAndNavigatorDiscarded ==
    [][ (RouteStep /\ (Has(item', DUMMY) \/ Has(item', PHASECORR))) =>
          /\ acqGroup' = acqGroup
          /\ acsGroup' = acsGroup
          /\ NumImages(sent') = NumImages(sent) ]_vars

\* ------------------------------------------------------------------ C8
\* C8: a calibration-flagged record changes no imaging buffer and sends no
\* image; the only calibration buffer it touches is the one of its own
\* slice, which afterwards is the old buffer with the record appended, or
\* empty when the record completed the calibration of the slice.
C8_CalibrationOnlyOwnSlice ==
    [][ (RouteStep /\ Has(item', CALIB)) =>
          /\ acqGroup' = acqGroup
          /\ NumImages(sent') = NumImages(sent)
          /\ \A s \in DOMAIN acsGroup :
                IF s = item'.slc
                THEN acsGroup'[s] \in {Append(acsGroup[s], item'), << >>}
                ELSE acsGroup'[s] = acsGroup[s] ]_vars

\* a calibration record of the second slice carrying last-in-slice was routed
\* while imaging data was pending and the first slice held calibration data
C8_Witness ==
    /\ item # Unbound /\ Has(item, CALIB) /\ Has(item, LAST_IN_SLICE) /\ item.slc = 1
    /\ AnyBuffered /\ Len(acsGroup[0]) > 0

\* ------------------------------------------------------------------ C9
\* C9 (as claimed): a calibration buffer only grows by the routed record
\* until it is consumed, and whenever the map of slice s is computed from the
\* calibration buffer of s, the map is stored under s and that buffer is
\* empty afterwards.
C9_CalibrationConsumedOnce ==
    [][ \A s \in DOMAIN acsGroup :
          LET grown == {acsGroup[s]} \cup
                         (IF RouteStep THEN {Append(acsGroup[s], item')} ELSE {})
          IN
          /\ acsGroup'[s] \in grown \cup {<< >>}
          /\ (\E g \in grown :
                 /\ Len(g) > 0
                 /\ sensmaps'[s] = process_acs(g, dmtx')
                 /\ sensmaps'[s] # sensmaps[s])
               => acsGroup'[s] = << >> ]_vars

\* ------------------------------------------------------------------ C10
\* C10 (as claimed): once the sensitivity map of a slice is not None it is
\* never replaced or reset.
C10_SensmapNeverReplaced ==
    [][ \A s \in DOMAIN sensmaps : sensmaps[s] # None => sensmaps'[s] = sensmaps[s] ]_vars

\* ------------------------------------------------------------------ C11
\* slices next to slice s
Neighbours(s) == {t \in DOMAIN sensmaps : t = s - 1 \/ t = s + 1}

\* C11 (as claimed): in process_spiral_dream, when an imaging record is routed
\* while some but not all slices have a sensitivity map and every slice
\* without a map has a neighbour with one, the duplication step raises
\* nothing and afterwards every slice holds a map: its own, or for a slice
\* that had none the map of a neighbour.
C11_DuplicationFillsGaps ==
    [][ (/\ pipe = "dream" /\ RouteStep /\ Imaging(item')
         /\ \E s \in DOMAIN sensmaps : sensmaps[s] # None
         /\ \E s \in DOMAIN sensmaps : sensmaps[s] = None
         /\ \A s \in DOMAIN sensmaps :
               sensmaps[s] = None => \E t \in Neighbours(s) : sensmaps[t] # None)
        => /\ err' # [tag |-> "AttributeError"]
           /\ \A s \in DOMAIN sensmaps :
                 /\ sensmaps'[s] # None
                 /\ sensmaps[s] = None =>
                       \E t \in Neighbours(s) : sensmaps'[s] = sensmaps[t] ]_vars

\* ------------------------------------------------------------------ C12
\* C12: in process_spiral_dream and powergrid_pulseq.process a routing step
\* changes the length of a slice/contrast buffer only in these ways: the
\* dream emission of a flagged imaging record empties the buffer of that
\* record; an imaging record with segment 0 that the loop survives makes the
\* buffer of its own slice/contrast one longer, with that record last (when
\* the step raises, the record is appended or not); any other record, and in
\* particular a record with segment > 0, leaves every length as it was.
C12_LengthCountsFirstSegments ==
    [][ (pipe \in {"dream", "powergrid"} /\ RouteStep) =>
          \A k \in DOMAIN acqGroup \cap DOMAIN acqGroup' :
             LET it == item'
                 own == Imaging(it) /\ it.seg = 0 /\ GroupKey(pipe, it) = k
                 emitted == /\ pipe = "dream" /\ pc' = "loop" /\ Imaging(it)
                            /\ Completes(it) /\ GroupKey(pipe, it) = k
             IN IF emitted THEN Len(acqGroup'[k]) = 0
                ELSE IF own /\ pc' = "loop"
                     THEN /\ Len(acqGroup'[k]) = Len(acqGroup[k]) + 1
                          /\ acqGroup'[k][Len(acqGroup'[k])].id = it.id
                ELSE IF own THEN Len(acqGroup'[k]) \in {Len(acqGroup[k]), Len(acqGroup[k]) + 1}
                ELSE Len(acqGroup'[k]) = Len(acqGroup[k]) ]_vars

\* a record with segment 1 was written into the second readout of a buffer
C12_Witness ==
    /\ pipe \in {"dream", "powergrid"} /\ pc = "loop"
    /\ item # Unbound /\ Imaging(item) /\ item.seg = 1
    /\ GroupKey(pipe, item) \in DOMAIN acqGroup
    /\ Len(acqGroup[GroupKey(pipe, item)]) = 2
    /\ acqGroup[GroupKey(pipe, item)][2].data[2] = item.id

\* ------------------------------------------------------------------ C13
\* the sample payloads of the readouts of a buffer, segment by segment
Samples(group) == [i \in 1..Len(group) |-> group[i].data]

\* C13: in process_spiral_dream and powergrid_pulseq.process every buffered
\* readout is nsegments segments wide and starts with its own payload; an
\* imaging record with segment k > 0 that reaches the segment handling while
\* its slice/contrast buffer holds a readout puts its payload at segment
\* position k of the last readout of that buffer and changes no other
\* position, no other readout and no other buffer (the buffer is read from
\* the image when the record's emission has just emptied it).
C13_SegmentWrittenInPlace ==
    [][ (pipe \in {"dream", "powergrid"} /\ RouteStep) =>
          LET it == item'
              key == GroupKey(pipe, it)
              emitted == pipe = "dream" /\ pc' = "loop" /\ Completes(it)
              after == IF emitted THEN sent'[Len(sent')].group ELSE acqGroup'[key]
          IN /\ \A k \in DOMAIN acqGroup' : \A i \in 1..Len(acqGroup'[k]) :
                   /\ Len(acqGroup'[k][i].data) = hdr.nsegments
                   /\ acqGroup'[k][i].data[1] = acqGroup'[k][i].id
             /\ (/\ Imaging(it) /\ it.seg > 0
                 /\ key \in DOMAIN acqGroup /\ Len(acqGroup[key]) > 0
                 /\ key \in DOMAIN acqGroup'
                 /\ (pc' = "loop" \/ pipe = "powergrid"))
                => /\ Samples(after) =
                        [Samples(acqGroup[key]) EXCEPT ![Len(acqGroup[key])][it.seg + 1] = it.id]
                   /\ \A k \in DOMAIN acqGroup \ {key} :
                         Samples(acqGroup'[k]) = Samples(acqGroup[k]) ]_vars

\* the second readout of a buffer holds the payloads of its segments 0 and 1
\* in order while the first readout still waits for its segment 1
C13_Witness ==
    /\ pipe \in {"dream", "powergrid"} /\ pc = "loop"
    /\ item # Unbound /\ Imaging(item) /\ item.seg = 1
    /\ GroupKey(pipe, item) \in DOMAIN acqGroup
    /\ LET g == acqGroup[GroupKey(pipe, item)]
       IN /\ Len(g) = 2
          /\ g[2].data = <<g[2].id, item.id>>
          /\ g[1].data = <<g[1].id, Zero>>

\* ------------------------------------------------------------------ C14
\* the readouts held in the buffers
Buffered(groups) == UNION {{groups[k][i] : i \in 1..Len(groups[k])} : k \in DOMAIN groups}

\* the readouts held in the buffers after a step, with the readouts of an
\* image sent by that step
ReadoutsAfter ==
    Buffered(acqGroup') \cup
      (IF Len(sent') > Len(sent) /\ sent'[Len(sent) + 1].tag = "image"
       THEN {sent'[Len(sent) + 1].group[i] : i \in 1..Len(sent'[Len(sent) + 1].group)}
       ELSE {})

\* the segments of the readout that record `it` belongs to have arrived in
\* order so far: `it` is a segment 0, or the last readout of its buffer holds
\* the payloads of the segments below it.seg and of no other
InOrder(it) ==
    \/ it.seg = 0
    \/ /\ GroupKey(pipe, it) \in DOMAIN acqGroup
       /\ Len(acqGroup[GroupKey(pipe, it)]) > 0
       /\ LET r == acqGroup[GroupKey(pipe, it)][Len(acqGroup[GroupKey(pipe, it)])]
          IN \A i \in 1..Len(r.data) : (r.data[i] # Zero) <=> (i <= it.seg)

\* the readout that record `it` belongs to
ReadoutOf(it) ==
    IF it.seg = 0 THEN it.id
    ELSE acqGroup[GroupKey(pipe, it)][Len(acqGroup[GroupKey(pipe, it)])].id

\* C14 (as claimed): in process_spiral_dream and powergrid_pulseq.process,
\* when the segments of a readout arrive in order, routing the record with
\* segment nsegments-1 leaves the readout with the record's payload written
\* and the trajectory correction applied exactly once, and routing a record
\* with any other segment applies no correction to any readout.
C14_CorrectedOnceOnLastSegment ==
    [][ (/\ pipe \in {"dream", "powergrid"} /\ RouteStep
         /\ Imaging(item') /\ InOrder(item'))
        => IF item'.seg = hdr.nsegments - 1
           THEN \E r \in ReadoutsAfter :
                   /\ r.id = ReadoutOf(item')
                   /\ r.data[item'.seg + 1] = item'.id
                   /\ Len(r.fov) = 1
           ELSE \A r \in ReadoutsAfter :
                   IF r.id = ReadoutOf(item') THEN Len(r.fov) = 0
                   ELSE \E q \in Buffered(acqGroup) : q.id = r.id /\ q.fov = r.fov ]_vars

\* ------------------------------------------------------------------ C15
\* the readouts of the images sent so far
Sent == UNION {{sent[n].group[i] : i \in 1..Len(sent[n].group)} :
                  n \in {m \in 1..Len(sent) : sent[m].tag = "image"}}

\* the trajectory state recorded at segment 0 of readout r
StateOf(r) ==
    [pred |-> [tag |-> "pred_trj", of |-> r.id],
     base |-> [tag |-> "base_trj", of |-> r.id],
     shift |-> [tag |-> "shift", of |-> r.id]]

\* C15 (as claimed): in process_spiral_dream and powergrid_pulseq.process
\* every trajectory correction applied to a readout received the predicted
\* trajectory, the base trajectory and the shift recorded at segment 0 of
\* that readout.
C15_CorrectedWithOwnState ==
    pipe \in {"dream", "powergrid"} =>
       \A r \in Buffered(acqGroup) \cup Sent :
          \A i \in 1..Len(r.fov) : r.fov[i] = StateOf(r)

\* ------------------------------------------------------------------ C16
\* record `it` is a later segment that no segment 0 of its own precedes: its
\* buffer is empty or the last readout of its buffer is already reassembled
Orphan(it) ==
    /\ it.seg > 0
    /\ \/ GroupKey(pipe, it) \notin DOMAIN acqGroup
       \/ Len(acqGroup[GroupKey(pipe, it)]) = 0
       \/ Len(acqGroup[GroupKey(pipe, it)][Len(acqGroup[GroupKey(pipe, it)])].fov) > 0

\* C16 (as claimed): in process_spiral_dream and powergrid_pulseq.process the
\* trajectory state of a readout is gone once its last segment has been
\* reassembled: routing a final-segment record that no segment 0 of its own
\* precedes applies no trajectory correction, so every readout keeps the
\* corrections it had.
C16_StateDiscardedAfterReadout ==
    [][ (/\ pipe \in {"dream", "powergrid"} /\ RouteStep
         /\ Imaging(item') /\ item'.seg = hdr.nsegments - 1 /\ Orphan(item'))
        => \A r \in ReadoutsAfter :
              \E q \in Buffered(acqGroup) : q.id = r.id /\ q.fov = r.fov ]_vars

\* ------------------------------------------------------------------ C17
\* C17 (as claimed): in process_spiral_dream and powergrid_pulseq.process an
\* imaging record with segment > 0 that finds the buffer of its slice/contrast
\* empty is dropped: the loop goes on, no exception leaves it and the record
\* enters no buffer.
C17_OrphanSegmentDropped ==
    [][ (/\ pipe \in {"dream", "powergrid"} /\ RouteStep
         /\ Imaging(item') /\ item'.seg > 0
         /\ GroupKey(pipe, item') \in DOMAIN acqGroup
         /\ Len(acqGroup[GroupKey(pipe, item')]) = 0)
        => /\ pc' = "loop"
           /\ err' = None
           /\ Buffered(acqGroup') = Buffered(acqGroup) ]_vars

\* ------------------------------------------------------------------ C18
\* C18 (as claimed): in process_spiral_dream and powergrid_pulseq.process
\* every readout of a group handed to the reconstruction holds the payloads
\* of all its segments, written in the order of arrival, and has had the
\* trajectory correction applied.
C18_OnlyCompleteReadoutsReconstructed ==
    pipe \in {"dream", "powergrid"} =>
       \A r \in Sent :
          /\ \A i \in 1..Len(r.data) : r.data[i] # Zero
          /\ \A i, j \in 1..Len(r.data) : i < j => r.data[i] < r.data[j]
          /\ Len(r.fov) > 0

\* ------------------------------------------------------------------ C19
\* the loop is left without an exception: by exhaustion or by the None item
EndStep == pc = "loop" /\ pc' # "loop" /\ acq_ctr' = acq_ctr

\* C19 (as claimed): in every pipeline, when the stream ends while an imaging
\* buffer is not empty, the trailing data is reported: a message about
\* untriggered data is logged, whatever the last item was and however the
\* stream ended.
C19_TrailingDataReported ==
    [][ (EndStep /\ AnyBuffered) => Len(log') > Len(log) ]_vars

\* ------------------------------------------------------------------ C20
\* the reconstruction command called in this step failed
RecoFailed == pc = "loop" /\ err' = [tag |-> "RuntimeError"]

\* C20 (as claimed): in every pipeline, when the external reconstruction call
\* made for a group fails, the pipeline ends with the error, no image of that
\* group is sent, and what was sent before stays as it was: the connection
\* receives nothing but the close of the finally block.
C20_ReconstructionFailureIsFatal ==
    [][ RecoFailed => pc' = "failed" /\ sent' = Append(sent, Close) ]_vars

\* a reconstruction failed after an earlier group had been sent
C20_Witness ==
    /\ pc = "failed" /\ err = [tag |-> "RuntimeError"]
    /\ NumImages(sent) > 0

\* ------------------------------------------------------------------ C21
\* an iteration of the routing loop has just consumed an Image or a Waveform
PassStep == pc = "loop" /\ acq_ctr' = acq_ctr + 1 /\ passed' # None

\* C21 (as claimed): in every pipeline, an Image or Waveform item of the
\* stream is sent on unchanged as the next output, and the noise, the
\* calibration and the imaging buffers stay as they are.
C21_ImagesAndWaveformsForwarded ==
    [][ PassStep => /\ sent' = Append(sent, passed')
                    /\ UNCHANGED <<noiseGroup, acsGroup, acqGroup>> ]_vars

\* ------------------------------------------------------------------ C22
\* C22: in process_spiral_dream and powergrid_pulseq.process, an imaging
\* record with segment 0 is either widened by insert_acq, and then its
\* widened sample count is at most 65535, or left as it arrived, and then
\* number_of_samples x nsegments exceeds 65535, the loop is left with
\* ValueError, no buffer has changed and nothing but close is sent.
C22_SampleLimitAbortsStream ==
    [][ (/\ RouteStep /\ (pipe = "dream" \/ pipe = "powergrid")
         /\ Imaging(item') /\ item'.seg = 0)
        => IF Len(item'.data) < hdr.nsegments
           THEN /\ item'.samples * hdr.nsegments > nsamples_max
                /\ item'.data = <<item'.id>>
                /\ pc' = "failed" /\ err' = [tag |-> "ValueError"]
                /\ sent' = Append(sent, Close)
                /\ UNCHANGED <<noiseGroup, acsGroup, acqGroup, base_trj>>
           ELSE item'.samples <= nsamples_max ]_vars

\* a readout too long to be widened has ended a stream that had sent an image
C22_Witness ==
    /\ pc = "failed" /\ err = [tag |-> "ValueError"] /\ passed = None
    /\ item # Unbound /\ Imaging(item) /\ item.seg = 0
    /\ item.samples * hdr.nsegments > nsamples_max
    /\ NumImages(sent) > 0

\* ------------------------------------------------------------------ C23
\* the stream positions a..b in order
Range(a, b) == [i \in 1..(b - a + 1) |-> a + i - 1]

\* sort_data (bart_jemris) and sort_into_kspace (bart_pics_pulseq): the
\* matrices that have been applied to the samples of each record of the
\* group when they are placed: those applied to acq.data before, and dm
\* when it is not None
Whitenings(group, dm) ==
    [i \in 1..Len(group) |->
        (IF group[i].white = None THEN << >> ELSE <<group[i].white>>)
          \o (IF dm = None THEN << >> ELSE <<dm>>)]

\* the stream so far was n noise records followed by imaging records of one
\* slice without completion flag: every position of the stream is accounted
\* for by the noise model (or the noise buffer) and one imaging buffer
NoiseThenImaging(n) ==
    /\ pc = "loop" /\ n >= 1 /\ n <= acq_ctr /\ sent = << >>
    /\ IF acq_ctr = n
       THEN /\ dmtx = None /\ Ids(noiseGroup) = Range(0, n - 1)
            /\ \A k \in DOMAIN acqGroup : acqGroup[k] = << >>
       ELSE /\ dmtx # None /\ dmtx.noise = Range(0, n - 1)
            /\ \E k \in DOMAIN acqGroup :
                  /\ Ids(acqGroup[k]) = Range(n, acq_ctr - 1)
                  /\ \A i \in 1..Len(acqGroup[k]) : acqGroup[k][i].slc = acqGroup[k][1].slc
                  /\ \A j \in DOMAIN acqGroup \ {k} : acqGroup[j] = << >>

\* the buffered imaging records all have slice s
SliceSoFar(s) == \A k \in DOMAIN acqGroup : \A i \in 1..Len(acqGroup[k]) : acqGroup[k][i].slc = s

\* C23: in bart_jemris.process and bart_pics_pulseq.process, when n noise
\* records were followed by imaging records of one slice and the imaging
\* record with last-in-slice arrives (and the reconstruction command
\* succeeds), the output is one image made from all imaging records in
\* order, with the noise model of all n noise records, without sensitivity
\* map, and its records are whitened once, with that model, by the sorter.
C23_NoiseThenImagingScenario ==
    [][ \A n \in 1..MaxItems :
          (/\ pipe = "jemris" \/ pipe = "pics"
           /\ NoiseThenImaging(n) /\ RouteStep /\ ~RecoFailed
           /\ Imaging(item') /\ Has(item', LAST_IN_SLICE) /\ SliceSoFar(item'.slc))
          => /\ dmtx' = [tag |-> "dmtx", noise |-> Range(0, n - 1)]
             /\ \A s \in DOMAIN sensmaps' : sensmaps'[s] = None
             /\ Len(sent') = 1
             /\ sent'[1].tag = "image"
             /\ Ids(sent'[1].group) = Range(n, acq_ctr)
             /\ sent'[1].sens = None
             /\ Whitenings(sent'[1].group, sent'[1].dmtx)
                   = [i \in 1..(acq_ctr - n + 1) |-> <<dmtx'>>] ]_vars

\* two noise records and two imaging records have given one image
C23_Witness ==
    /\ pipe \in {"jemris", "pics"} /\ pc = "loop" /\ acq_ctr = 4
    /\ Len(sent) = 1 /\ sent[1].tag = "image"
    /\ sent[1].dmtx # None /\ sent[1].dmtx.noise = <<0, 1>>
    /\ Ids(sent[1].group) = <<2, 3>>

\* ------------------------------------------------------------------ C24
\* insert_acq has not refused the record for its sample count
Accepted(it) == it.seg = 0 => Len(it.data) = hdr.nsegments

\* C24 (as claimed): in every pipeline, while no noise record has arrived, an
\* imaging record whose segments arrive in order is routed without an
\* exception (a failing reconstruction command apart), the final segment of
\* a readout included, and the records of an image sent then are unwhitened.
C24_RoutedWithoutNoiseModel ==
    [][ (/\ RouteStep /\ ~RecoFailed
         /\ dmtx = None /\ noiseGroup = << >>
         /\ Imaging(item') /\ InOrder(item') /\ Accepted(item'))
        => /\ pc' = "loop"
           /\ \A i \in (Len(sent) + 1)..Len(sent') :
                 sent'[i].tag = "image" =>
                    \A j \in 1..Len(sent'[i].group) :
                       Whitenings(sent'[i].group, sent'[i].dmtx)[j] = << >> ]_vars

\* ------------------------------------------------------------------ C25
\* the sorter has been called without noise model and without recentering
SortedPlain ==
    call.fn = "sort_into_kspace" /\ call.out # Pending /\ call.dmtx = None /\ ~call.zf

\* the cells of the sorter's grid, and the records of the group in a cell
Cells == (0..(SorterNy(pipe, call.m) - 1)) \X (0..(call.m.z - 1))

Hits(e) == {i \in 1..Len(call.group) : <<call.group[i].enc1, call.group[i].enc2>> = e}

\* the samples a cell of the result holds: the quotients of the columns the
\* records are written to, given that they are whole and the columns around
\* them are zero
Held(e) ==
    LET w == Window(SorterNx(pipe, call.m), call.ncol)
        cell == call.out.kspace[e]
    IN [c \in 1..w.len |-> cell[w.lo + c - 1].num \div cell[w.lo + c - 1].den]

Whole(e) ==
    LET w == Window(SorterNx(pipe, call.m), call.ncol)
        cell == call.out.kspace[e]
    IN \A c \in 0..(SorterNx(pipe, call.m) - 1) :
          IF c >= w.lo /\ c < w.lo + w.len THEN cell[c].num % cell[c].den = 0
          ELSE cell[c].num = 0

RECURSIVE SumOf(_, _)
SumOf(S, c) ==
    IF S = {} THEN 0
    ELSE LET i == CHOOSE j \in S : TRUE IN call.group[i].data[c] + SumOf(S \ {i}, c)

\* C25 (as claimed): sort_into_kspace without noise model and recentering.
\* When the records of the group address every cell of the grid once, every
\* hit counter is 1 and every cell holds the samples of its record; when all
\* records of the group address one cell, that cell holds the mean of their
\* samples; and a cell that no record addresses is zero.
C25_CartesianSortPlacesAndAverages ==
    SortedPlain =>
       /\ (\A e \in Cells : Cardinality(Hits(e)) = 1)
             => /\ call.out.tag = "kspace"
                /\ \A e \in Cells :
                      /\ call.out.counter[e] = 1
                      /\ Whole(e)
                      /\ Held(e) = call.group[CHOOSE i \in Hits(e) : TRUE].data
       /\ (Len(call.group) > 0 /\ \E e \in Cells : Hits(e) = 1..Len(call.group))
             => /\ call.out.tag = "kspace"
                /\ LET e == CHOOSE d \in Cells : Hits(d) = 1..Len(call.group)
                       w == Window(SorterNx(pipe, call.m), call.ncol)
                   IN /\ w.len = call.ncol
                      /\ \A c \in 1..call.ncol :
                            /\ call.out.kspace[e][w.lo + c - 1].num = SumOf(Hits(e), c)
                            /\ call.out.kspace[e][w.lo + c - 1].den = Len(call.group)
       /\ call.out.tag = "kspace"
             => \A e \in Cells : Hits(e) = {} =>
                   \A c \in 0..(SorterNx(pipe, call.m) - 1) : call.out.kspace[e][c].num = 0

\* ------------------------------------------------------------------ C26
\* C26 (as claimed): calc_traj with an impulse response that is the identity
\* returns a predicted trajectory equal to the base trajectory on every axis
\* and at every sample, for gradients of three axes and of two axes.
C26_IdentityResponseKeepsTrajectory ==
    (call.fn = "calc_traj" /\ call.out # Pending /\ IsIdentity(call.girf))
       => call.out.pred_trj = call.out.base_trj

\* ------------------------------------------------------------------ C27
\* C27 (as claimed): once the header is completed at stream start no routing
\* or processing step modifies it; in particular the reconstruction of the
\* powergrid pipeline leaves the header it is given unchanged.
C27_HeaderNeverModified == [][metadata' = metadata]_vars

\* ------------------------------------------------------------------ C28
\* what the sorter of pipeline p makes of sample s of channel c of a record
SortedSample(p, acq, dm, c, s) ==
    LET v == IF dm = None \/ p = "powergrid" THEN acq.data[c][s] ELSE dm.scale * acq.data[c][s]
    IN IF p = "dream"
       THEN [filtered |-> v, at |-> <<acq.traj[s][1], acq.traj[s][2], acq.traj[s][3]>>]
       ELSE v

\* and of dimension d of the trajectory at sample s of a record
SortedPosition(p, acq, fov, d, s) ==
    CASE p = "jemris" -> fov * acq.traj[s][d]
      [] p = "dream" -> acq.traj[s][d]
      [] OTHER -> acq.traj[s][IF d = 1 THEN 2 ELSE IF d = 2 THEN 1 ELSE d]

\* C28: for a group of A >= 1 records of C channels and S samples the
\* non-uniform sorters return samples of shape [1, S, A, C] and a trajectory
\* of shape [3, S, A], and index a of the acquisition axis holds the samples
\* and the trajectory of the a-th record of the group.
C28_NonUniformSortKeepsRecordsPaired ==
    (call.fn = "sort_data" /\ call.out # Pending /\ Len(call.group) >= 1)
       => LET A == Len(call.group)
              out == call.out
          IN /\ out.tag = "sorted"
             /\ DOMAIN out.sig = 1..1 /\ DOMAIN out.sig[1] = 1..call.S
             /\ DOMAIN out.trj = 1..3
             /\ \A s \in 1..call.S :
                  /\ DOMAIN out.sig[1][s] = 1..A
                  /\ \A d \in 1..3 : DOMAIN out.trj[d] = 1..call.S /\ DOMAIN out.trj[d][s] = 1..A
                  /\ \A a \in 1..A :
                       /\ DOMAIN out.sig[1][s][a] = 1..call.C
                       /\ \A c \in 1..call.C :
                            out.sig[1][s][a][c] =
                               SortedSample(pipe, call.group[a], call.dmtx, c, s)
                       /\ \A d \in 1..3 :
                            out.trj[d][s][a] =
                               SortedPosition(pipe, call.group[a], call.fov, d, s)

C28_Witness ==
    /\ call.fn = "sort_data" /\ call.out # Pending /\ Len(call.group) = MaxGroup
    /\ call.C = 2 /\ call.S = 3 /\ call.dmtx # None /\ pipe = "dream"
    /\ call.out.tag = "sorted"

\* ------------------------------------------------------------------ C29
\* C29: in every pipeline and on every path (normal end, end-of-stream
\* marker, an exception raised while routing or reconstructing) close is
\* sent exactly once and it is the last output: nothing is sent while the
\* loop runs after it, and no image follows it.
C29_CloseOnceAndLast ==
    LET closes == SelectSeq(sent, LAMBDA m : m = Close)
    IN /\ pc = "loop" => Len(closes) = 0
       /\ pc # "loop" => Len(closes) = 1 /\ sent[Len(sent)] = Close

C29_Witness ==
    /\ pc = "failed" /\ err = [tag |-> "RuntimeError"]
    /\ Len(sent) >= 2 /\ sent[Len(sent)] = Close /\ sent[1].tag = "ismrmrd.Image"

\* ------------------------------------------------------------------ C30
\* C30 (as claimed): in the pics, dream and powergrid pipelines the handling
\* that follows the routing loop never raises, whatever the stream was: empty,
\* ended by an Image or a Waveform, or ended by the end-of-stream marker
\* while an imaging group is non-empty.
C30_EndOfStreamNeverRaises ==
    [][(EndStep /\ pipe \in {"pics", "dream", "powergrid"}) => pc' = "done"]_vars

\* ------------------------------------------------------------------ C31
\* the largest encoding steps of the group the sorter was called on
GroupMax(f) ==
    Max(0, CHOOSE n \in {IF f = 1 THEN call.group[i].enc1 ELSE call.group[i].enc2 :
                           i \in 1..Len(call.group)} :
              \A i \in 1..Len(call.group) :
                 (IF f = 1 THEN call.group[i].enc1 ELSE call.group[i].enc2) <= n)

\* C31: sort_into_kspace with zf_around_center, for a group whose steps lie
\* in [0, enc1_max] and [0, enc2_max] with enc1_max < ny and enc2_max < nz:
\* no record is rejected for its index, every cell counts exactly the records
\* whose steps, moved by ny//2 - (enc1_max+1)//2 and nz//2 - (enc2_max+1)//2
\* without wrapping, are that cell (so distinct steps go to distinct cells),
\* and a record at steps (enc1_max+1)//2, (enc2_max+1)//2 lands on the
\* cell ny//2, nz//2.
C31_RecentredIndicesStayInside ==
    (call.fn = "sort_into_kspace" /\ call.out # Pending /\ call.zf /\ Len(call.group) > 0)
       => LET ny == SorterNy(pipe, call.m)
              nz == call.m.z
              d1 == (ny \div 2) - ((GroupMax(1) + 1) \div 2)
              d2 == (nz \div 2) - ((GroupMax(2) + 1) \div 2)
          IN /\ call.out.tag # "IndexError"
             /\ \A i \in 1..Len(call.group) :
                  /\ call.group[i].enc1 + d1 \in 0..(ny - 1)
                  /\ call.group[i].enc2 + d2 \in 0..(nz - 1)
             /\ call.out.tag = "kspace" =>
                  /\ \A e \in DOMAIN call.out.counter :
                       call.out.counter[e] =
                          Cardinality({i \in 1..Len(call.group) :
                                         <<call.group[i].enc1 + d1, call.group[i].enc2 + d2>> = e})
                  /\ \A i \in 1..Len(call.group) :
                       (/\ call.group[i].enc1 = (GroupMax(1) + 1) \div 2
                        /\ call.group[i].enc2 = (GroupMax(2) + 1) \div 2)
                          => call.out.counter[<<ny \div 2, nz \div 2>>] >= 1

C31_Witness ==
    /\ call.fn = "sort_into_kspace" /\ call.out # Pending /\ call.zf
    /\ call.out.tag = "kspace" /\ Len(call.group) >= 2
    /\ GroupMax(1) = 0 /\ SorterNy(pipe, call.m) >= 2
    /\ \E i, j \in 1..Len(call.group) : call.group[i].enc2 # call.group[j].enc2

\* ------------------------------------------------------------------ C32
\* C32 (as claimed): sort_into_kspace places the ncol samples of a record
\* into exactly ncol contiguous readout columns centred on nx//2, for every
\* ncol with 1 <= ncol <= nx, odd or even: the sorter returns a k-space, and
\* the k-space of a single unwhitened record holds sample c of the record in
\* column nx//2 - ncol//2 + c - 1 of the record's cell.
C32_ReadoutCentredWithoutLoss ==
    (/\ call.fn = "sort_into_kspace" /\ call.out # Pending /\ Len(call.group) > 0
     /\ call.ncol <= SorterNx(pipe, call.m))
       => /\ call.out.tag = "kspace"
          /\ (Len(call.group) = 1 /\ call.dmtx = None /\ ~call.zf)
                => \A c \in 1..call.ncol :
                      call.out.kspace[<<call.group[1].enc1, call.group[1].enc2>>]
                                     [(SorterNx(pipe, call.m) \div 2) - (call.ncol \div 2) + c - 1].num
                         = call.group[1].data[c]

\* ------------------------------------------------------------------ C33
\* C33: grad_pred returns one row per output axis (the zeroth-order term and
\* three spatial axes) and exactly as many samples as the nominal gradient
\* has, whether the impulse response has more samples than the gradient,
\* as many, or fewer.
C33_PredictionHasShapeOfGradient ==
    (call.fn = "grad_pred" /\ call.out # Pending)
       => /\ DOMAIN call.out = 1..4
          /\ \A d \in 1..4 : DOMAIN call.out[d] = 1..Len(call.grad[1])

C33_Witness ==
    /\ call.fn = "grad_pred" /\ call.out # Pending
    /\ call.girf.n > Len(call.grad[1]) /\ Len(call.grad[1]) = MaxGrad
    /\ call.girf.delay = 1 /\ call.out[2] # call.grad[1]

\* ------------------------------------------------------------------ C34
\* the record insert_acq is to widen: no role flag of the protocol, a
\* non-Cartesian pipeline, segment 0
ToWiden(it) ==
    /\ it.flags \cap {NOISE, PHASECORR, DUMMY, CALIB} = {}
    /\ pipe \in {"dream", "powergrid"}
    /\ it.seg = 0

\* insert_acq has raised for the sample count of the record
Refused(it) == ToWiden(it) /\ Len(it.data) = 1 /\ it.samples * hdr.nsegments > nsamples_max

C35_CorrectionHasBaseTrajectory ==
    [][ /\ \A k \in DOMAIN acqGroup' :
             \A i \in 1..Len(acqGroup'[k]) :
                \A j \in 1..Len(acqGroup'[k][i].fov) : acqGroup'[k][i].fov[j].base # None
        /\ \A n \in 1..Len(sent') :
             sent'[n].tag = "image" =>
                \A i \in 1..Len(sent'[n].group) :
                   \A j \in 1..Len(sent'[n].group[i].fov) :
                      sent'[n].group[i].fov[j].base # None
        /\ (/\ RouteStep /\ pipe \in {"dream", "powergrid"}
            /\ Imaging(item') /\ item'.seg > 0 /\ base_trj = None)
              => pc' = "failed" /\ acqGroup' = acqGroup ]_vars

\* the correction has been applied to a readout of two segments
C35_Witness ==
    /\ pipe \in {"dream", "powergrid"} /\ hdr.nsegments = 2 /\ pc = "loop"
    /\ \E k \in DOMAIN acqGroup :
          /\ Len(acqGroup[k]) > 0
          /\ Len(acqGroup[k][Len(acqGroup[k])].fov) = 1
          /\ acqGroup[k][Len(acqGroup[k])].fov[1].base = base_trj

\* ------------------------------------------------------------------ C36
\* no calibration or imaging record is buffered, no sensitivity map is
\* computed and no image was sent
Untouched ==
    /\ \A s \in DOMAIN acsGroup : Len(acsGroup[s]) = 0
    /\ \A k \in DOMAIN acqGroup : Len(acqGroup[k]) = 0
    /\ \A s \in DOMAIN sensmaps : sensmaps[s] = None
    /\ NumImages(sent) = 0

\* the records the pipeline holds or has emitted
Retained ==
    UNION {{acsGroup[s][i] : i \in 1..Len(acsGroup[s])} : s \in DOMAIN acsGroup}
      \cup UNION {{acqGroup[k][i] : i \in 1..Len(acqGroup[k])} : k \in DOMAIN acqGroup}
      \cup UNION {{sent[n].group[i] : i \in 1..Len(sent[n].group)} :
                     n \in {m \in 1..Len(sent) : sent[m].tag = "image"}}

\* the sensitivity maps computed from calibration data, cached or emitted
CalibratedMaps ==
    {m \in {sensmaps[s] : s \in DOMAIN sensmaps} : m # None /\ m.src = "acs"}

\* the noise records came first: the model exists and every record held or
\* emitted, and every calibration record a map was computed from, arrived
\* after the noise the model was built from
NoiseCameFirst ==
    /\ dmtx # None
    /\ \A n \in 1..Len(dmtx.noise) :
          /\ \A r \in Retained : dmtx.noise[n] < r.id
          /\ \A m \in CalibratedMaps : \A i \in 1..Len(m.ids) : dmtx.noise[n] < m.ids[i]

\* every emitted Group was whitened with dm: in powergrid each record in the
\* loop when its last segment arrived (the reconstruction gets no model),
\* elsewhere the whole Group in process_raw
EmittedWith(dm) ==
    \A n \in 1..Len(sent) :
        sent[n].tag = "image" =>
            \A i \in 1..Len(sent[n].group) :
                LET r == sent[n].group[i] IN
                IF pipe = "powergrid"
                THEN (\A j \in 1..Len(r.data) : r.data[j] # Zero) => r.white = dm
                ELSE sent[n].dmtx = dm /\ r.white = None

C37_MapCombinesOneSlice ==
    [][ call.fn = "process_raw" =>
          IF Len(call'.maps) > Len(call.maps)
          THEN LET m == call'.maps[Len(call'.maps)].from IN
               /\ full_set_check(m)
               /\ \A k \in DOMAIN m : m[k] = call.imagesets[k] \/ m[k].of = call.calls
               /\ \A j, k \in DOMAIN m : m[j].slc = m[k].slc
               /\ \A k \in DOMAIN call'.imagesets : call'.imagesets[k] = None
          ELSE ~full_set_check(call'.imagesets) ]_vars

\* ------------------------------------------------------------------ C38
\* C38 (as claimed): the images bart_pics_pulseq.process emits for a stream do
\* not depend on the streams processed before it: every image of a stream is
\* scaled by the scaling that the first emitted Group of that same stream
\* fixes.
C38_ScalingFixedWithinStream ==
    (call.fn = "process" /\ pipe = "pics") =>
        \A i \in 1..Len(call.images) :
            LET first == CHOOSE j \in 1..i :
                            /\ call.images[j].stream = call.images[i].stream
                            /\ \A k \in 1..(j - 1) : call.images[k].stream # call.images[i].stream
            IN call.images[i].scale = Scaling(call.images[first].max)

\* ------------------------------------------------------------------ C39
\* C39 (as claimed): every call of insert_acq has closed the protocol dataset
\* it opened when it returns or raises, whatever the role of the record, its
\* segment index, the mode (Cartesian or not) and also when the sample count
\* is refused: no protocol handle is open between two records.
C39_NoProtocolHandleLeftOpen ==
    call.fn = "insert_acq" => call.handles = 0

====
